---- MODULE Spec2Model ----
(***************************************************************************)
(* A model of emulsify-core's build configuration glue:                    *)
(*   - the Vite entry-map builder (config/vite/entries.js and its          *)
(*     structure-override revision),                                       *)
(*   - the asset-naming step of config/vite/vite.config.js,                *)
(*   - the environment resolver (config/vite/environment.js and its        *)
(*     later revisions).                                                   *)
(* Strings are sequences of one-character strings, so that sanitizing,     *)
(* slicing and suffix handling are computed character by character.        *)
(***************************************************************************)
EXTENDS Integers, Sequences, FiniteSets, TLC

VARIABLES
  impl,       \* which revision of the entry-map builder runs
  ctx,        \* the BuildContext handed to makePatterns / buildInputs
  fs,         \* the source files on disk (indices into Rel)
  pc,         \* position inside buildInputs / the bundler run
  todo,       \* the files of the running loop's glob result not yet visited
  inputs,     \* the entry map under construction: key -> file
  outputs,    \* the file names the bundler emitted: {[key, file, name]}
  envImpl,    \* which revision of resolveEnvironment runs
  descriptor, \* project.emulsify.json on disk
  penv,       \* process.env: EMULSIFY_PLATFORM, EMULSIFY_SDC
  srcOnDisk,  \* whether <project>/src exists
  envPc,      \* "start", "returned" or "raised"
  env,        \* the record resolveEnvironment returned
  ignore,     \* a11y.config.js: the ignore lists
  pages,      \* what pa11y settles to for each listed component
  a11yPc,     \* position inside lintReportAndExit
  settled,    \* the pa11y calls that have settled
  flags,      \* the values logReport has returned so far
  logged,     \* the console.log calls so far
  exitCode,   \* the argument of process.exit, "none" while it was not called
  mImpl,      \* which revision of the mirror plugin runs
  menv,       \* the environment makePlugins is given
  dirs,       \* the directories on disk, by absolute path
  files,      \* the files on disk, by absolute path
  locked,     \* the directories that cannot be read
  listing,    \* the order in which the disk lists directory entries
  queue,      \* the walked files the mirror loop has not visited yet
  mPc,        \* position inside the mirror plugin's closeBundle
  removed,    \* every directory rmdirSync has removed
  fault,      \* whether a file-system call has failed
  sImpl,      \* which revision of the spritemap plugin runs
  iconDisk,   \* the icon files of the project: path |-> what reading it gives
  sPc,        \* position inside the spritemap plugin's generateBundle
  sQueue,     \* the sorted matches files.map has not visited yet
  usedIds,    \* the identifiers idFor has handed out
  symbols,    \* the symbols of the spritemap so far, in order
  srcFiles,   \* the files under the source directory, by absolute path
  cPc,        \* position inside the closeBundle hooks of the copy plugins
  cQueue,     \* the copies the current loops have not made yet
  copies,     \* every copy written: source and destination
  kImpl,      \* which revision of buildInputs computes the keys
  kProject,   \* the absolute path of the project
  kSdc,       \* env.SDC
  kFiles,     \* the files the globs of the running branch return
  kTodo,      \* the files the loops have not visited yet
  kInputs,    \* the entry map so far: key |-> file
  kPc,        \* the branch of buildInputs that runs, and whether it is over
  wScope,     \* where webpack.common.js resolves its names: file or revision
  wMap,       \* the entries Map: key |-> a file, or an array of files
  wCalls,     \* the addEntry calls made so far: key and file
  wCount,     \* how many addEntry calls were made
  wPc,        \* whether an addEntry call has thrown
  behaviors,  \* Drupal.behaviors, in the order of Object.keys
  dNext,      \* the index forEach visits next
  attached,   \* the behaviours whose attach was invoked, in order
  timers,     \* the errors Drupal.throwError has queued with setTimeout
  rethrown,   \* the errors thrown from a timer callback
  dPc,        \* position inside Drupal.attachBehaviors
  gImpl,      \* which revision of the Storybook manager module loads
  imported,   \* what the dynamic import of the project's theme settles to
  configured, \* the themes passed to addons.setConfig, in order
  gPc,        \* position inside the manager module
  pImpl,      \* which revision of the prune helper is called
  pStart,     \* the start directory of the call
  pStop,      \* the boundary directory of the call
  pDirs,      \* the directories on disk
  pFiles,     \* the files on disk
  pPc,        \* whether the helper has been called
  oImpl,      \* which revision resolves the structure overrides
  oList,      \* variant.structureImplementations of the descriptor
  oEnv,       \* the structure fields of the resolved environment
  oPc         \* whether resolveEnvironment has returned

entVars == <<impl, ctx, fs, pc, todo, inputs, outputs>>
envVars == <<envImpl, descriptor, penv, srcOnDisk, envPc, env>>
a11yVars == <<ignore, pages, a11yPc, settled, flags, logged, exitCode>>
mirrorVars ==
  <<mImpl, menv, dirs, files, locked, listing, queue, mPc, removed, fault>>
spriteVars == <<sImpl, iconDisk, sPc, sQueue, usedIds, symbols>>
copyVars == <<srcFiles, cPc, cQueue, copies>>
keyVars == <<kImpl, kProject, kSdc, kFiles, kTodo, kInputs, kPc>>
webpackVars == <<wScope, wMap, wCalls, wCount, wPc>>
drupalVars == <<behaviors, dNext, attached, timers, rethrown, dPc>>
managerVars == <<gImpl, imported, configured, gPc>>
pruneVars == <<pImpl, pStart, pStop, pDirs, pFiles, pPc>>
overrideVars == <<oImpl, oList, oEnv, oPc>>
vars == <<impl, ctx, fs, pc, todo, inputs, outputs,
          envImpl, descriptor, penv, srcOnDisk, envPc, env,
          ignore, pages, a11yPc, settled, flags, logged, exitCode,
          mImpl, menv, dirs, files, locked, listing, queue, mPc, removed, fault,
          sImpl, iconDisk, sPc, sQueue, usedIds, symbols,
          srcFiles, cPc, cQueue, copies,
          kImpl, kProject, kSdc, kFiles, kTodo, kInputs, kPc,
          wScope, wMap, wCalls, wCount, wPc,
          behaviors, dNext, attached, timers, rethrown, dPc,
          gImpl, imported, configured, gPc,
          pImpl, pStart, pStop, pDirs, pFiles, pPc,
          oImpl, oList, oEnv, oPc>>

(***************************************************************************)
(* JavaScript string primitives                                            *)
(***************************************************************************)
LowerSeq == <<"a", "b", "c", "d", "e", "f", "g", "h", "i", "j", "k", "l", "m", "n", "o", "p", "q", "r", "s", "t", "u", "v", "w", "x", "y", "z">>
UpperSeq == <<"A", "B", "C", "D", "E", "F", "G", "H", "I", "J", "K", "L", "M", "N", "O", "P", "Q", "R", "S", "T", "U", "V", "W", "X", "Y", "Z">>
DigitSeq == <<"0", "1", "2", "3", "4", "5", "6", "7", "8", "9">>

Range(s) == {s[i] : i \in DOMAIN s}

MinOf(S) == CHOOSE x \in S : \A y \in S : x <= y
MaxOf(S) == CHOOSE x \in S : \A y \in S : x >= y

\* String.prototype.startsWith / endsWith
startsWith(s, p) == Len(p) <= Len(s) /\ SubSeq(s, 1, Len(p)) = p
endsWith(s, p) == Len(p) <= Len(s) /\ SubSeq(s, Len(s) - Len(p) + 1, Len(s)) = p

\* String.prototype.indexOf / lastIndexOf: 0-based, -1 when absent
indexOf(s, sub) ==
  LET hits == {i \in 0..(Len(s) - Len(sub)) : SubSeq(s, i + 1, i + Len(sub)) = sub}
  IN IF hits = {} THEN -1 ELSE MinOf(hits)
lastIndexOf(s, sub) ==
  LET hits == {i \in 0..(Len(s) - Len(sub)) : SubSeq(s, i + 1, i + Len(sub)) = sub}
  IN IF hits = {} THEN -1 ELSE MaxOf(hits)
includes(s, sub) == indexOf(s, sub) # -1

\* String.prototype.slice(a) and slice(a, b), 0-based, for 0 <= a <= b
sliceFrom(s, a) == SubSeq(s, a + 1, Len(s))
slice(s, a, b) == SubSeq(s, a + 1, b)

\* String.prototype.split(sep)[1] for a string that includes sep
splitSecond(s, sep) ==
  LET rest == sliceFrom(s, indexOf(s, sep) + Len(sep))
      j == indexOf(rest, sep)
  IN IF j = -1 THEN rest ELSE slice(rest, 0, j)

\* String.prototype.toLowerCase on the ASCII letters
lowerChar(c) ==
  IF c \in Range(UpperSeq)
  THEN LowerSeq[CHOOSE i \in 1..26 : UpperSeq[i] = c]
  ELSE c
toLowerCase(s) == [i \in DOMAIN s |-> lowerChar(s[i])]

\* String.prototype.trim (space is the only white space of the model)
RECURSIVE trimStart(_)
trimStart(s) == IF s # <<>> /\ Head(s) = " " THEN trimStart(Tail(s)) ELSE s
RECURSIVE trimEnd(_)
trimEnd(s) ==
  IF s # <<>> /\ s[Len(s)] = " " THEN trimEnd(SubSeq(s, 1, Len(s) - 1)) ELSE s
trim(s) == trimEnd(trimStart(s))

\* s.replace(/^\/+/, '')
RECURSIVE stripLeadingSlashes(_)
stripLeadingSlashes(s) ==
  IF s # <<>> /\ Head(s) = "/" THEN stripLeadingSlashes(Tail(s)) ELSE s

\* s.replace(/\/$/, '')
stripTrailingSlash(s) ==
  IF s # <<>> /\ s[Len(s)] = "/" THEN SubSeq(s, 1, Len(s) - 1) ELSE s

\* s.replace(/\.(scss|js)$/i, '')
stripScssOrJs(s) ==
  LET low == toLowerCase(s)
  IN IF endsWith(low, <<".", "s", "c", "s", "s">>) THEN SubSeq(s, 1, Len(s) - 5)
     ELSE IF endsWith(low, <<".", "j", "s">>) THEN SubSeq(s, 1, Len(s) - 3)
     ELSE s

\* s.replace(/\.js$/i, '') and s.replace(/\.scss$/i, '')
stripJs(s) ==
  IF endsWith(toLowerCase(s), <<".", "j", "s">>) THEN SubSeq(s, 1, Len(s) - 3) ELSE s
stripScss(s) ==
  IF endsWith(toLowerCase(s), <<".", "s", "c", "s", "s">>) THEN SubSeq(s, 1, Len(s) - 5) ELSE s

\* s.replace(/^components\//, '')
stripComponentsPrefix(s) ==
  IF startsWith(s, <<"c", "o", "m", "p", "o", "n", "e", "n", "t", "s", "/">>) THEN sliceFrom(s, 11) ELSE s

\* path.basename and the directory part of a POSIX path
basename(p) == sliceFrom(p, lastIndexOf(p, <<"/">>) + 1)
dirname(p) ==
  LET i == lastIndexOf(p, <<"/">>) IN IF i = -1 THEN <<>> ELSE slice(p, 0, i)

(***************************************************************************)
(* entries.js: tiny utilities                                              *)
(***************************************************************************)
\* path.sep of the build host
sep == "/"

toPosix(p) == [i \in DOMAIN p |-> IF p[i] = sep THEN "/" ELSE p[i]]

\* the character class [a-zA-Z0-9/_-]
KeyChars ==
  Range(LowerSeq) \cup Range(UpperSeq) \cup Range(DigitSeq) \cup {"/", "_", "-"}

sanitizePath_keepAll(s) == s
sanitizePath(s) == SelectSeq(s, LAMBDA c : c \in KeyChars)

replaceLastSlash_first(str, replacement) ==
  LET i == indexOf(str, <<"/">>)
  IN IF i = -1 THEN str
     ELSE slice(str, 0, i) \o replacement \o sliceFrom(str, i + 1)
replaceLastSlash(str, replacement) ==
  LET i == lastIndexOf(str, <<"/">>)
  IN IF i = -1 THEN str
     ELSE slice(str, 0, i) \o replacement \o sliceFrom(str, i + 1)

typeFolder(type) == IF type = "css" THEN <<"/", "c", "s", "s", "/">> ELSE <<"/", "j", "s", "/">>

(***************************************************************************)
(* The project on disk                                                     *)
(***************************************************************************)
\* at most this many source files exist in one project
MaxFiles == 3

projectDir == <<"/", "p">>

\* the source files a project may hold, relative to the source root's parent
Rel == <<
  <<"c", "o", "m", "p", "o", "n", "e", "n", "t", "s", "/", "x", "/", "a", ".", "j", "s">>,
  <<"c", "o", "m", "p", "o", "n", "e", "n", "t", "s", "/", "x", "/", "a", ".", "s", "c", "s", "s">>,
  <<"c", "o", "m", "p", "o", "n", "e", "n", "t", "s", "/", "x", "/", "a", "@", ".", "j", "s">>,
  <<"c", "o", "m", "p", "o", "n", "e", "n", "t", "s", "/", "x", "/", "a", "_", "_", "s", "t", "y", "l", "e", ".", "j", "s">>,
  <<"l", "a", "y", "o", "u", "t", "/", "h", ".", "j", "s">>,
  <<"l", "a", "y", "o", "u", "t", "/", "h", ".", "s", "c", "s", "s">>,
  <<"c", "o", "m", "p", "o", "n", "e", "n", "t", "s", "/", "x", "/", "c", "l", "-", "a", ".", "s", "c", "s", "s">>,
  <<"c", "o", "m", "p", "o", "n", "e", "n", "t", "s", "/", "x", "/", "a", "c", "l", "-", "b", ".", "s", "c", "s", "s">>,
  <<"c", "o", "m", "p", "o", "n", "e", "n", "t", "s", "/", "x", "/", "a", ".", "t", "e", "s", "t", ".", "j", "s">>,
  <<"c", "o", "m", "p", "o", "n", "e", "n", "t", "s", "/", "x", "/", "_", "_", "p", "r", "o", "t", "o", "_", "_", ".", "j", "s">> >>

FileIds == DOMAIN Rel

\* <project>/src holds the files when it exists, else the project root does
pathOf(i, srcExists) ==
  projectDir \o (IF srcExists THEN <<"/", "s", "r", "c", "/">> ELSE <<"/">>) \o Rel[i]

absPath(i) == pathOf(i, ctx.srcExists)

isScript(i) == endsWith(Rel[i], <<".", "j", "s">>)
isStylesheet(i) == endsWith(Rel[i], <<".", "s", "c", "s", "s">>)

(***************************************************************************)
(* entries.js: makePatterns and glob matching                              *)
(***************************************************************************)
NoPattern == [root |-> <<>>, dir |-> "none", name |-> "none"]

makePatterns_alwaysBase(c) ==
  [ BaseScssPattern |->
      [root |-> c.srcDir, dir |-> "notComponentsUtil", name |-> "scss"],
    ComponentScssPattern |->
      [root |-> c.srcDir, dir |-> "any", name |-> "scss"],
    ComponentLibraryScssPattern |->
      [root |-> c.srcDir, dir |-> "any", name |-> "clsb"],
    BaseJsPattern |->
      [root |-> c.srcDir, dir |-> "notComponentsUtil", name |-> "js"],
    ComponentJsPattern |->
      [root |-> c.srcDir, dir |-> "any", name |-> "js"] ]
makePatterns(c) ==
  [ BaseScssPattern |->
      IF c.srcExists
      THEN [root |-> c.srcDir, dir |-> "notComponentsUtil", name |-> "scss"]
      ELSE NoPattern,
    ComponentScssPattern |->
      IF c.srcExists
      THEN [root |-> c.srcDir, dir |-> "components", name |-> "scss"]
      ELSE [root |-> c.srcDir, dir |-> "any", name |-> "scss"],
    ComponentLibraryScssPattern |->
      [root |-> c.srcDir, dir |-> "any", name |-> "clsb"],
    BaseJsPattern |->
      IF c.srcExists
      THEN [root |-> c.srcDir, dir |-> "notComponentsUtil", name |-> "js"]
      ELSE NoPattern,
    ComponentJsPattern |->
      IF c.srcExists
      THEN [root |-> c.srcDir, dir |-> "components", name |-> "js"]
      ELSE [root |-> c.srcDir, dir |-> "any", name |-> "js"] ]

\* !(*.stories|*.component|*.min|*.test).js
matchJsName(b) ==
  /\ endsWith(b, <<".", "j", "s">>)
  /\ Head(b) # "."
  /\ LET stem == SubSeq(b, 1, Len(b) - 3)
     IN ~ \/ endsWith(stem, <<".", "s", "t", "o", "r", "i", "e", "s">>)
          \/ endsWith(stem, <<".", "c", "o", "m", "p", "o", "n", "e", "n", "t">>)
          \/ endsWith(stem, <<".", "m", "i", "n">>)
          \/ endsWith(stem, <<".", "t", "e", "s", "t">>)

\* !(_*|cl-*|sb-*).scss
matchScssName(b) ==
  /\ endsWith(b, <<".", "s", "c", "s", "s">>)
  /\ Head(b) # "."
  /\ LET stem == SubSeq(b, 1, Len(b) - 5)
     IN ~ \/ startsWith(stem, <<"_">>)
          \/ startsWith(stem, <<"c", "l", "-">>)
          \/ startsWith(stem, <<"s", "b", "-">>)

\* *{cl-*,sb-*}.scss, which brace expansion turns into *cl-*.scss and *sb-*.scss
matchClSbName(b) ==
  /\ endsWith(b, <<".", "s", "c", "s", "s">>)
  /\ Head(b) # "."
  /\ LET stem == SubSeq(b, 1, Len(b) - 5)
     IN \/ includes(stem, <<"c", "l", "-">>)
        \/ includes(stem, <<"s", "b", "-">>)

matchName(name, b) ==
  CASE name = "js" -> matchJsName(b)
    [] name = "scss" -> matchScssName(b)
    [] name = "clsb" -> matchClSbName(b)
    [] OTHER -> FALSE

\* the directory part of a pattern: components/**, !(components|util)/**, **
matchDir(dir, rel) ==
  LET i == indexOf(rel, <<"/">>)
      first == IF i = -1 THEN <<>> ELSE slice(rel, 0, i)
  IN /\ Head(rel) # "."
     /\ ~ includes(rel, <<"/", ".">>)
     /\ CASE dir = "components" -> first = <<"c", "o", "m", "p", "o", "n", "e", "n", "t", "s">>
          [] dir = "notComponentsUtil" ->
               i # -1 /\ first # <<"c", "o", "m", "p", "o", "n", "e", "n", "t", "s">> /\ first # <<"u", "t", "i", "l">>
          [] dir = "any" -> TRUE
          [] OTHER -> FALSE

matches(pattern, p) ==
  /\ pattern.dir # "none"
  /\ startsWith(p, pattern.root \o <<"/">>)
  /\ LET rel == sliceFrom(p, Len(pattern.root) + 1)
     IN rel # <<>> /\ matchDir(pattern.dir, rel) /\ matchName(pattern.name, basename(rel))

\* globSync(pattern) over the files on disk; '' matches nothing
globSync(pattern) == {i \in fs : matches(pattern, absPath(i))}

(***************************************************************************)
(* entries.js: computeOutputStem / insertBucket / injectBucket             *)
(***************************************************************************)
computeOutputStem_noSuffix(rel, type, SDC) ==
  IF SDC THEN stripScssOrJs(rel)
  ELSE stripScssOrJs(replaceLastSlash(rel, typeFolder(type)))
computeOutputStem(rel, type, SDC) ==
  LET withoutExt == stripScssOrJs(rel)
  IN IF SDC
     THEN (IF type = "css" THEN withoutExt \o <<"_", "_", "s", "t", "y", "l", "e">> ELSE withoutExt)
     ELSE stripScssOrJs(replaceLastSlash(rel, typeFolder(type)))

insertBucket(rel, bucket, sdc) ==
  LET withoutExt == stripScssOrJs(rel)
  IN IF sdc
     THEN (IF bucket = "css" THEN withoutExt \o <<"_", "_", "s", "t", "y", "l", "e">> ELSE withoutExt)
     ELSE stripScssOrJs(replaceLastSlash(rel, typeFolder(bucket)))

injectBucket(rel, bucket, SDC) ==
  LET withoutExt == stripScssOrJs(rel)
  IN IF SDC
     THEN (IF bucket = "css" THEN withoutExt \o <<"_", "_", "s", "t", "y", "l", "e">> ELSE withoutExt)
     ELSE stripScssOrJs(replaceLastSlash(rel, typeFolder(bucket)))

bucketOf(im, rel, type, SDC) ==
  CASE im = "entries_v1" -> computeOutputStem(rel, type, SDC)
    [] im = "entries_v2" -> insertBucket(rel, type, SDC)
    [] im = "part_009" -> injectBucket(rel, type, SDC)

\* relativePathFromSrc (first revision)
relativePathFromSrc(abs, srcDir) ==
  LET posix == toPosix(abs)
      needle == toPosix(toPosix(srcDir)) \o <<"/">>
  IN IF startsWith(posix, needle) THEN sliceFrom(posix, Len(needle)) ELSE posix

\* relFrom (later revisions)
relFrom(abs, baseAbs) ==
  LET posixAbs == toPosix(abs)
      needle == stripTrailingSlash(toPosix(baseAbs)) \o <<"/">>
  IN IF startsWith(posixAbs, needle) THEN sliceFrom(posixAbs, Len(needle)) ELSE posixAbs

relOf(im, abs, base) ==
  IF im = "entries_v1" THEN relativePathFromSrc(abs, base) ELSE relFrom(abs, base)

(***************************************************************************)
(* entries.js: the key each loop of buildInputs computes for a file        *)
(***************************************************************************)
globalKey(im, abs, type, c) ==
  <<"g", "l", "o", "b", "a", "l", "/">> \o bucketOf(im, relOf(im, abs, c.srcDir), type, c.SDC)

componentKey(im, abs, type, c) ==
  LET posix == toPosix(abs)
      idx == indexOf(posix, <<"/", "c", "o", "m", "p", "o", "n", "e", "n", "t", "s", "/">>)
      after == IF idx # -1 THEN sliceFrom(posix, idx + 12)
               ELSE relOf(im, abs, c.srcDir)
      stem == stripComponentsPrefix(bucketOf(im, <<"c", "o", "m", "p", "o", "n", "e", "n", "t", "s", "/">> \o after, type, c.SDC))
  IN <<"c", "o", "m", "p", "o", "n", "e", "n", "t", "s", "/">> \o stem

storybookKey(im, abs, c) ==
  <<"s", "t", "o", "r", "y", "b", "o", "o", "k", "/">> \o stripScss(relOf(im, abs, c.srcDir))

relFromComponents(file, c) ==
  LET relFromProj == relFrom(file, c.projectDir)
  IN IF includes(relFromProj, <<"c", "o", "m", "p", "o", "n", "e", "n", "t", "s", "/">>)
     THEN splitSecond(relFromProj, <<"c", "o", "m", "p", "o", "n", "e", "n", "t", "s", "/">>)
     ELSE relFromProj

overrideJsKey(file, c) == <<"j", "s", "/">> \o stripJs(relFromComponents(file, c))
overrideCssKey(file, c) == <<"c", "s", "s", "/">> \o stripScss(relFromComponents(file, c))
overrideStorybookKey(file, c) ==
  <<"s", "t", "o", "r", "y", "b", "o", "o", "k", "/">> \o stripScss(relFrom(file, c.projectDir))

(***************************************************************************)
(* entries.js: add                                                         *)
(***************************************************************************)
mapSet(map, k, v) == [x \in DOMAIN map \cup {k} |-> IF x = k THEN v ELSE map[x]]

\* entries.js, first revision: a Map, guarded by has()
add_v1(map, key, abs) ==
  LET clean == sanitizePath(stripLeadingSlashes(toPosix(key)))
  IN IF clean = <<>> \/ clean \in DOMAIN map THEN map ELSE mapSet(map, clean, abs)

\* entries.js, structure-override revision: an object, guarded by hasOwnProperty
add_v2_drop(map, key, abs) ==
  LET k == sanitizePath(stripLeadingSlashes(toPosix(key)))
  IN IF k = <<>> THEN map
     ELSE IF k \in DOMAIN map THEN [x \in DOMAIN map \ {k} |-> map[x]]
     ELSE mapSet(map, k, abs)
add_v2(map, key, abs) ==
  LET k == sanitizePath(stripLeadingSlashes(toPosix(key)))
  IN IF k = <<>> THEN map
     ELSE IF k \in DOMAIN map THEN map
     ELSE mapSet(map, k, abs)

\* the later revision's safeSetKey: no has-check, forbidden words refused
forbidden == {<<"_", "_", "p", "r", "o", "t", "o", "_", "_">>, <<"p", "r", "o", "t", "o", "t", "y", "p", "e">>, <<"c", "o", "n", "s", "t", "r", "u", "c", "t", "o", "r">>}
safeSetKey(map, key, value) ==
  IF key = <<>> \/ \E bad \in forbidden : includes(key, bad)
  THEN map
  ELSE mapSet(map, key, value)

add_p9(map, key, abs) ==
  LET clean == stripLeadingSlashes(sanitizePath(toPosix(key)))
  IN IF clean = <<>> THEN map ELSE safeSetKey(map, clean, abs)

add(im, map, key, abs) ==
  CASE im = "entries_v1" -> add_v1(map, key, abs)
    [] im = "entries_v2" -> add_v2(map, key, abs)
    [] im = "part_009" -> add_p9(map, key, abs)

(***************************************************************************)
(* entries.js: buildInputs, one loop iteration per step                    *)
(***************************************************************************)
Impls == {"entries_v1", "entries_v2", "part_009"}

\* the structure-override branch is taken (absent from the first revision)
overrideBranch_never(im, c) == FALSE
overrideBranch(im, c) ==
  im # "entries_v1" /\ c.structureOverrides /\ Len(c.structureRoots) > 0

overrideGlob(c, name) ==
  UNION {globSync([root |-> c.structureRoots[r], dir |-> "any", name |-> name])
           : r \in DOMAIN c.structureRoots}

\* the glob result a loop walks
loopFiles(loop, c) ==
  LET pt == makePatterns(c)
  IN CASE loop = "globalJs" -> globSync(pt.BaseJsPattern)
       [] loop = "componentJs" -> globSync(pt.ComponentJsPattern)
       [] loop = "globalScss" -> globSync(pt.BaseScssPattern)
       [] loop = "componentScss" -> globSync(pt.ComponentScssPattern)
       [] loop = "storybook" -> globSync(pt.ComponentLibraryScssPattern)
       [] loop = "overrideJs" -> overrideGlob(c, "js")
       [] loop = "overrideCss" -> overrideGlob(c, "scss")
       [] loop = "overrideStorybook" -> overrideGlob(c, "clsb")
       [] OTHER -> {}

nextLoop(loop) ==
  CASE loop = "globalJs" -> "componentJs"
    [] loop = "componentJs" -> "globalScss"
    [] loop = "globalScss" -> "componentScss"
    [] loop = "componentScss" -> "storybook"
    [] loop = "storybook" -> "done"
    [] loop = "overrideJs" -> "overrideCss"
    [] loop = "overrideCss" -> "overrideStorybook"
    [] loop = "overrideStorybook" -> "done"

\* the key the running loop computes for file i
keyIn(loop, im, i, c) ==
  LET abs == pathOf(i, c.srcExists)
  IN CASE loop = "globalJs" -> globalKey(im, abs, "js", c)
       [] loop = "componentJs" -> componentKey(im, abs, "js", c)
       [] loop = "globalScss" -> globalKey(im, abs, "css", c)
       [] loop = "componentScss" -> componentKey(im, abs, "css", c)
       [] loop = "storybook" -> storybookKey(im, abs, c)
       [] loop = "overrideJs" -> overrideJsKey(abs, c)
       [] loop = "overrideCss" -> overrideCssKey(abs, c)
       [] loop = "overrideStorybook" -> overrideStorybookKey(abs, c)

buildContext(srcExists, SDC, overrides) ==
  LET srcDir == projectDir \o (IF srcExists THEN <<"/", "s", "r", "c">> ELSE <<"/", "c", "o", "m", "p", "o", "n", "e", "n", "t", "s">>)
  IN [ projectDir |-> projectDir,
       srcDir |-> srcDir,
       srcExists |-> srcExists,
       SDC |-> SDC,
       structureOverrides |-> overrides,
       structureRoots |-> IF overrides THEN <<srcDir>> ELSE <<>> ]

EntInit ==
  /\ impl \in Impls
  /\ \E srcExists \in BOOLEAN, SDC \in BOOLEAN, overrides \in BOOLEAN :
       /\ overrides => impl # "entries_v1"
       /\ ctx = buildContext(srcExists, SDC, overrides)
  /\ fs \in {F \in SUBSET FileIds : Cardinality(F) <= MaxFiles}
  /\ pc = "start"
  /\ todo = {}
  /\ inputs = <<>>
  /\ outputs = {}

\* buildInputs is entered: the branch is chosen and its first glob evaluated
Begin ==
  /\ pc = "start"
  /\ pc' = IF overrideBranch(impl, ctx) THEN "overrideJs" ELSE "globalJs"
  /\ todo' = loopFiles(pc', ctx)
  /\ UNCHANGED <<impl, ctx, fs, inputs, outputs>>

\* one iteration of the loop named `loop`
Visit(loop) ==
  /\ pc = loop
  /\ \E i \in todo :
       /\ inputs' = add(impl, inputs, keyIn(loop, impl, i, ctx), i)
       /\ todo' = todo \ {i}
  /\ UNCHANGED <<impl, ctx, fs, pc, outputs>>

AddGlobalJs == Visit("globalJs")
AddComponentJs == Visit("componentJs")
AddGlobalScss == Visit("globalScss")
AddComponentScss == Visit("componentScss")
AddStorybookScss == Visit("storybook")
AddOverrideJs == Visit("overrideJs")
AddOverrideCss == Visit("overrideCss")
AddOverrideStorybook == Visit("overrideStorybook")

\* a loop has walked its whole glob result: the next one starts, or the map is returned
NextLoop ==
  /\ pc \notin {"start", "done", "emitted"}
  /\ todo = {}
  /\ pc' = nextLoop(pc)
  /\ todo' = loopFiles(pc', ctx)
  /\ UNCHANGED <<impl, ctx, fs, inputs, outputs>>

(***************************************************************************)
(* vite.config.js: output naming                                           *)
(***************************************************************************)
\* entryFileNames: '[name].js'
entryFileNames(name) == name \o <<".", "j", "s">>

\* the name the bundler hands to assetFileNames for a stylesheet entry: [name].css
cssAssetName(name) == name \o <<".", "c", "s", "s">>

assetFileNames_keep(file) ==
  IF endsWith(file, <<".", "c", "s", "s">>) \/ endsWith(file, <<".", "m", "a", "p">>)
  THEN file
  ELSE <<"a", "s", "s", "e", "t", "s", "/">> \o basename(file)
assetFileNames(file) ==
  IF endsWith(file, <<".", "c", "s", "s">>) \/ endsWith(file, <<".", "m", "a", "p">>)
  THEN \* file.replace(/__style(?=\.css(\.map)?$)/, '')
       IF endsWith(file, <<"_", "_", "s", "t", "y", "l", "e", ".", "c", "s", "s">>)
       THEN SubSeq(file, 1, Len(file) - 11) \o <<".", "c", "s", "s">>
       ELSE IF endsWith(file, <<"_", "_", "s", "t", "y", "l", "e", ".", "c", "s", "s", ".", "m", "a", "p">>)
       THEN SubSeq(file, 1, Len(file) - 15) \o <<".", "c", "s", "s", ".", "m", "a", "p">>
       ELSE file
  ELSE <<"a", "s", "s", "e", "t", "s", "/">> \o basename(file)

emitted(k, i) ==
  IF isScript(i)
  THEN {[key |-> k, file |-> i, name |-> entryFileNames(k)]}
  ELSE {[key |-> k, file |-> i, name |-> assetFileNames(cssAssetName(k))],
        [key |-> k, file |-> i, name |-> assetFileNames(cssAssetName(k) \o <<".", "m", "a", "p">>)]}

\* the bundler writes one script per script entry, one stylesheet and map per style entry
EmitBundle ==
  /\ pc = "done"
  /\ pc' = "emitted"
  /\ outputs' = UNION {emitted(k, inputs[k]) : k \in DOMAIN inputs}
  /\ UNCHANGED <<impl, ctx, fs, todo, inputs>>

EntIdle ==
  /\ impl = "idle" /\ ctx = <<>> /\ fs = {} /\ pc = "idle"
  /\ todo = {} /\ inputs = <<>> /\ outputs = {}

(***************************************************************************)
(* environment.js: the project descriptor and process.env                  *)
(***************************************************************************)
\* a JSON field or environment variable that may be missing
Absent == [set |-> FALSE, val |-> <<>>]
Str(s) == [set |-> TRUE, val |-> s]

\* x || '' for a string-or-undefined x
orEmpty(o) == IF o.set THEN o.val ELSE <<>>
\* JavaScript truthiness of a string-or-undefined x
truthy(o) == o.set /\ o.val # <<>>
\* a || b for strings-or-undefined
orElse(a, b) == IF truthy(a) THEN a ELSE b

\* (x).toString().toLowerCase().trim()
lowerTrim(s) == trim(toLowerCase(s))

\* project.singleDirectoryComponents: missing, a boolean, or a non-empty string
SdcFields == {"absent", "true", "false", "string"}
\* Boolean(x)
toBoolean(f) == f \in {"true", "string"}
\* typeof x === 'boolean'
isBoolean(f) == f \in {"true", "false"}

EnvPlatformValues == {Absent, Str(<<>>), Str(<<" ">>), Str(<<"D", "r", "u", "p", "a", "l">>), Str(<<"w", "p">>)}
EnvSdcValues == {Absent, Str(<<>>), Str(<<"1">>), Str(<<"0">>), Str(<<"y", "e", "s">>)}
FilePlatformValues == {Absent, Str(<<" ">>), Str(<<"d", "r", "u", "p", "a", "l">>), Str(<<" ", "G", "e", "n", "e", "r", "i", "c">>)}
OtherPlatformValues == {Absent, Str(<<"c", "r", "a", "f", "t">>)}

\* the parsed content of a well-formed project.emulsify.json
JsonValues ==
  [ projectPlatform : FilePlatformValues,   \* project.platform
    topPlatform : OtherPlatformValues,      \* platform
    variantPlatform : OtherPlatformValues,  \* variant.platform
    sdc : SdcFields ]                       \* project.singleDirectoryComponents

\* what optional chaining reads from null
NullJson ==
  [ projectPlatform |-> Absent, topPlatform |-> Absent,
    variantPlatform |-> Absent, sdc |-> "absent" ]

DescriptorStates ==
  [state : {"missing", "unreadable", "malformed"}, json : {NullJson}]
    \cup [state : {"valid"}, json : JsonValues]

MissingDescriptor == [state |-> "missing", json |-> NullJson]

EnvImpls ==
  {"environment_js", "part_013_platform", "part_013_overrides",
   "part_013_sdc", "part_014", "part_015"}

Returned(rec) == [raised |-> FALSE, value |-> rec]
Raised == [raised |-> TRUE, value |-> <<>>]

srcDirOf(srcExists) ==
  projectDir \o (IF srcExists THEN <<"/", "s", "r", "c">> ELSE <<"/", "c", "o", "m", "p", "o", "n", "e", "n", "t", "s">>)

\* safeReadJson: null when the file is missing, unreadable or not JSON
safeReadJson(d) == IF d.state = "valid" THEN d.json ELSE NullJson

(***************************************************************************)
(* config/vite/environment.js                                              *)
(***************************************************************************)
resolveEnvironment_js(d, pe, srcExists) ==
  IF d.state \in {"unreadable", "malformed"}
  THEN Raised  \* readFileSync / JSON.parse outside any try
  ELSE LET emulsifyConfig ==
             IF d.state = "valid"
             THEN d.json
             ELSE [NullJson EXCEPT !.projectPlatform = Str(<<"g", "e", "n", "e", "r", "i", "c">>)]
       IN Returned([ projectDir |-> projectDir,
                     isDrupal |-> emulsifyConfig.projectPlatform = Str(<<"d", "r", "u", "p", "a", "l">>),
                     srcDir |-> srcDirOf(srcExists),
                     srcExists |-> srcExists ])

(***************************************************************************)
(* later revisions of resolveEnvironment                                   *)
(***************************************************************************)
\* platform only; the descriptor is read only when the variable gives nothing
resolveEnvironment_platform(d, pe, srcExists) ==
  LET fromEnv == lowerTrim(orEmpty(pe.EMULSIFY_PLATFORM))
      fromFile ==
        IF d.state = "valid"
        THEN lowerTrim(orEmpty(orElse(d.json.projectPlatform, d.json.topPlatform)))
        ELSE <<>>
      platform == IF fromEnv # <<>> THEN fromEnv ELSE fromFile
  IN Returned([ projectDir |-> projectDir,
                srcDir |-> srcDirOf(srcExists),
                srcExists |-> srcExists,
                platform |-> IF platform = <<>> THEN <<"g", "e", "n", "e", "r", "i", "c">> ELSE platform ])

\* platform, SDC from the descriptor, structure overrides
resolveEnvironment_overrides(d, pe, srcExists) ==
  LET fromEnv == lowerTrim(orEmpty(pe.EMULSIFY_PLATFORM))
      fromFile ==
        IF d.state = "valid"
        THEN lowerTrim(orEmpty(orElse(d.json.projectPlatform, d.json.topPlatform)))
        ELSE <<>>
      platform == IF fromEnv # <<>> THEN fromEnv ELSE fromFile
  IN Returned([ projectDir |-> projectDir,
                srcDir |-> srcDirOf(srcExists),
                srcExists |-> srcExists,
                platform |-> IF platform = <<>> THEN <<"g", "e", "n", "e", "r", "i", "c">> ELSE platform,
                SDC |-> d.state = "valid" /\ toBoolean(d.json.sdc) ])

\* defaults first, then the descriptor, then the environment variables
resolveEnvironment_sdc(d, pe, srcExists) ==
  LET p == IF d.state = "valid"
           THEN lowerTrim(orEmpty(orElse(d.json.projectPlatform, d.json.topPlatform)))
           ELSE <<>>
      filePlatform == IF p # <<>> THEN p ELSE <<"g", "e", "n", "e", "r", "i", "c">>
      fileSDC == d.state = "valid" /\ isBoolean(d.json.sdc) /\ d.json.sdc = "true"
      envPlatform == lowerTrim(orEmpty(pe.EMULSIFY_PLATFORM))
      v == lowerTrim(orEmpty(pe.EMULSIFY_SDC))
  IN Returned([ projectDir |-> projectDir,
                srcDir |-> srcDirOf(srcExists),
                srcExists |-> srcExists,
                platform |-> IF envPlatform # <<>> THEN envPlatform ELSE filePlatform,
                SDC |-> IF pe.EMULSIFY_SDC.set
                        THEN v \in {<<"1">>, <<"t", "r", "u", "e">>, <<"y", "e", "s">>}
                        ELSE fileSDC ])

\* safeReadJson, 'generic' as the last alternative before normalising
resolveEnvironment_p14(d, pe, srcExists) ==
  LET fromEnv == lowerTrim(orEmpty(pe.EMULSIFY_PLATFORM))
      emulsifyJson == safeReadJson(d)
      chosen == orElse(orElse(emulsifyJson.projectPlatform,
                              emulsifyJson.variantPlatform),
                       Str(<<"g", "e", "n", "e", "r", "i", "c">>))
  IN Returned([ projectDir |-> projectDir,
                srcDir |-> srcDirOf(srcExists),
                srcExists |-> srcExists,
                platform |-> IF fromEnv # <<>> THEN fromEnv ELSE lowerTrim(chosen.val),
                SDC |-> toBoolean(emulsifyJson.sdc) ])

\* safeReadJson, env || config || 'generic'
resolveEnvironment_p15(d, pe, srcExists) ==
  LET config == safeReadJson(d)
      envPlatform == lowerTrim(orEmpty(pe.EMULSIFY_PLATFORM))
      cfgPlatform == lowerTrim(orEmpty(orElse(config.projectPlatform, config.topPlatform)))
      platform == IF envPlatform # <<>> THEN envPlatform
                  ELSE IF cfgPlatform # <<>> THEN cfgPlatform
                  ELSE <<"g", "e", "n", "e", "r", "i", "c">>
      envSDC == lowerTrim(orEmpty(pe.EMULSIFY_SDC))
      cfgSDC == isBoolean(config.sdc) /\ config.sdc = "true"
  IN Returned([ projectDir |-> projectDir,
                srcDir |-> srcDirOf(srcExists),
                srcExists |-> srcExists,
                platform |-> platform,
                isDrupal |-> platform = <<"d", "r", "u", "p", "a", "l">>,
                SDC |-> IF envSDC \in {<<"1">>, <<"t", "r", "u", "e">>} THEN TRUE
                        ELSE IF envSDC \in {<<"0">>, <<"f", "a", "l", "s", "e">>} THEN FALSE
                        ELSE cfgSDC ])

resolveEnvironment(im, d, pe, srcExists) ==
  CASE im = "environment_js" -> resolveEnvironment_js(d, pe, srcExists)
    [] im = "part_013_platform" -> resolveEnvironment_platform(d, pe, srcExists)
    [] im = "part_013_overrides" -> resolveEnvironment_overrides(d, pe, srcExists)
    [] im = "part_013_sdc" -> resolveEnvironment_sdc(d, pe, srcExists)
    [] im = "part_014" -> resolveEnvironment_p14(d, pe, srcExists)
    [] im = "part_015" -> resolveEnvironment_p15(d, pe, srcExists)

EnvInit ==
  /\ envImpl \in EnvImpls
  /\ descriptor \in DescriptorStates
  /\ penv \in [EMULSIFY_PLATFORM : EnvPlatformValues, EMULSIFY_SDC : EnvSdcValues]
  /\ srcOnDisk \in BOOLEAN
  /\ envPc = "start"
  /\ env = <<>>

\* one call of resolveEnvironment of the revision `im`
Resolve(im) ==
  /\ envPc = "start"
  /\ envImpl = im
  /\ LET r == resolveEnvironment(im, descriptor, penv, srcOnDisk)
     IN /\ envPc' = IF r.raised THEN "raised" ELSE "returned"
        /\ env' = r.value
  /\ UNCHANGED <<envImpl, descriptor, penv, srcOnDisk>>

ResolveEnvironmentJs == Resolve("environment_js")
ResolvePlatformOnly == Resolve("part_013_platform")
ResolveWithOverrides == Resolve("part_013_overrides")
ResolveWithEnvSdc == Resolve("part_013_sdc")
ResolvePart014 == Resolve("part_014")
ResolvePart015 == Resolve("part_015")

EnvIdle ==
  /\ envImpl = "idle" /\ descriptor = MissingDescriptor
  /\ penv = [EMULSIFY_PLATFORM |-> Absent, EMULSIFY_SDC |-> Absent]
  /\ srcOnDisk = FALSE /\ envPc = "idle" /\ env = <<>>

(***************************************************************************)
(* scripts/a11y.js: the accessibility lint                                 *)
(***************************************************************************)
\* at most this many components are listed in a11y.config.js
MaxComponents == 2

\* a value of the project's ignore lists: an array of strings, or something else
NotArray == [isArray |-> FALSE, items |-> {}]
ArrayOf(S) == [isArray |-> TRUE, items |-> S]

IssueCodes == {"color-contrast", "region"}
IssueDescriptions == {"undefined", "", "landmarks"}

\* a pa11y issue: its code and its runnerExtras.description
Issues == [code : IssueCodes, description : IssueDescriptions]

IgnoreConfigs ==
  [ codes : {NotArray, ArrayOf({}), ArrayOf({"region"})},
    descriptions : {NotArray, ArrayOf({"landmarks", ""})} ]

\* the issue lists pa11y may report for one page; "undefined" is a report without issues
IssueLists ==
  { <<>>,
    << [code |-> "color-contrast", description |-> "undefined"] >>,
    << [code |-> "region", description |-> "undefined"] >>,
    << [code |-> "color-contrast", description |-> "landmarks"] >>,
    << [code |-> "color-contrast", description |-> ""] >>,
    << [code |-> "region", description |-> "landmarks"],
       [code |-> "color-contrast", description |-> "undefined"] >> }

\* what one pa11y call settles to
Pa11yOutcomes ==
  {[rejected |-> TRUE, hasIssues |-> FALSE, issues |-> <<>>]}
    \cup [rejected : {FALSE}, hasIssues : {FALSE}, issues : {<<>>}]
    \cup [rejected : {FALSE}, hasIssues : {TRUE}, issues : IssueLists]

issueIsValid_noGuard(issue, ign) ==
  ~(\/ ign.codes.isArray /\ issue.code \in ign.codes.items
    \/ ign.descriptions.isArray /\ issue.description \in ign.descriptions.items)
issueIsValid_codeOnly(issue, ign) ==
  ~(ign.codes.isArray /\ issue.code \in ign.codes.items)
issueIsValid(issue, ign) ==
  LET code == issue.code
      description == issue.description
      codeIgnored == ign.codes.isArray /\ code \in ign.codes.items
      descIgnored ==
        /\ description \notin {"undefined", ""}
        /\ ign.descriptions.isArray
        /\ description \in ign.descriptions.items
  IN ~(codeIgnored \/ descIgnored)

\* logReport: the issues it logs and the flag it returns
validIssues(report, ign) ==
  SelectSeq(IF report.hasIssues THEN report.issues ELSE <<>>,
            LAMBDA issue : issueIsValid(issue, ign))
logReport(report, ign) == Len(validIssues(report, ign)) > 0

\* logReport: its console.log calls for the report of page i, in order
reportLines_issuesFirst(report, i, ign) ==
  IF logReport(report, ign)
  THEN [n \in DOMAIN validIssues(report, ign) |->
          [kind |-> "issue", page |-> i, issue |-> validIssues(report, ign)[n]]]
       \o <<[kind |-> "found", page |-> i]>>
  ELSE <<[kind |-> "none", page |-> i]>>
reportLines(report, i, ign) ==
  IF logReport(report, ign)
  THEN <<[kind |-> "found", page |-> i]>>
       \o [n \in DOMAIN validIssues(report, ign) |->
             [kind |-> "issue", page |-> i, issue |-> validIssues(report, ign)[n]]]
  ELSE <<[kind |-> "none", page |-> i]>>

a11yInit ==
  /\ ignore \in IgnoreConfigs
  /\ pages \in UNION {[1..n -> Pa11yOutcomes] : n \in 0..MaxComponents}
  /\ a11yPc = "start"
  /\ settled = {}
  /\ flags = <<>>
  /\ logged = <<>>
  /\ exitCode = "none"

\* list.map(lintComponent): every pa11y call is started
LintComponents ==
  /\ a11yPc = "start"
  /\ a11yPc' = "linting"
  /\ UNCHANGED <<ignore, pages, settled, flags, logged, exitCode>>

\* one pa11y call settles
Pa11ySettles ==
  /\ a11yPc = "linting"
  /\ \E i \in DOMAIN pages \ settled : settled' = settled \cup {i}
  /\ UNCHANGED <<ignore, pages, a11yPc, flags, logged, exitCode>>

\* Promise.all rejects with the first rejection: R.andThen's function never runs
PromiseAllRejects ==
  /\ a11yPc = "linting"
  /\ \E i \in settled : pages[i].rejected
  /\ a11yPc' = "rejected"
  /\ UNCHANGED <<ignore, pages, settled, flags, logged, exitCode>>

\* Promise.all resolves with every report
PromiseAllResolves ==
  /\ a11yPc = "linting"
  /\ settled = DOMAIN pages
  /\ \A i \in settled : ~pages[i].rejected
  /\ a11yPc' = "reporting"
  /\ UNCHANGED <<ignore, pages, settled, flags, logged, exitCode>>

\* results.map(logReport), one report per step
LogReport ==
  /\ a11yPc = "reporting"
  /\ Len(flags) < Len(pages)
  /\ LET report == pages[Len(flags) + 1]
     IN /\ flags' = Append(flags, logReport(report, ignore))
        /\ logged' = logged \o reportLines(report, Len(flags) + 1, ignore)
  /\ UNCHANGED <<ignore, pages, a11yPc, settled, exitCode>>

\* R.reject(R.equals(false)), R.unless(R.isEmpty, () => process.exit(1))
ExitIfIssues ==
  /\ a11yPc = "reporting"
  /\ Len(flags) = Len(pages)
  /\ LET withIssues == SelectSeq(flags, LAMBDA f : f # FALSE)
     IN IF withIssues # <<>>
        THEN a11yPc' = "exited" /\ exitCode' = "1"
        ELSE a11yPc' = "resolved" /\ exitCode' = exitCode
  /\ UNCHANGED <<ignore, pages, settled, flags, logged>>

A11yIdle ==
  /\ ignore = [codes |-> NotArray, descriptions |-> NotArray]
  /\ pages = <<>> /\ a11yPc = "idle" /\ settled = {}
  /\ flags = <<>> /\ logged = <<>> /\ exitCode = "none"

(***************************************************************************)
(* plugins.js: the file system the copy and mirror steps work on           *)
(***************************************************************************)
\* process.cwd(), which is also the project root
cwd == <<"/", "p">>

\* path.join of two clean paths, path.resolve of one path, path.dirname
join(a, b) == IF b = <<>> THEN a ELSE a \o <<"/">> \o b
resolve(p) == IF p # <<>> /\ Head(p) = "/" THEN p ELSE cwd \o <<"/">> \o p
RECURSIVE lastSlash(_, _)
lastSlash(p, i) ==
  IF i = 0 THEN -1 ELSE IF p[i] = "/" THEN i - 1 ELSE lastSlash(p, i - 1)
pathDirname(p) ==
  LET i == lastSlash(p, Len(p))
  IN IF i = -1 THEN <<".">> ELSE IF i = 0 THEN <<"/">> ELSE slice(p, 0, i)

\* build.outDir || 'dist'
outDir == <<"d", "i", "s", "t">>

\* the directories and files a build output may hold, by absolute path
DistDirs ==
  { <<"/", "p", "/", "d", "i", "s", "t", "/", "c", "o", "m", "p", "o", "n", "e", "n", "t", "s">>, <<"/", "p", "/", "d", "i", "s", "t", "/", "c", "o", "m", "p", "o", "n", "e", "n", "t", "s", "/", "a">>,
    <<"/", "p", "/", "d", "i", "s", "t", "/", "c", "o", "m", "p", "o", "n", "e", "n", "t", "s", "/", "a", "/", "b">>, <<"/", "p", "/", "d", "i", "s", "t", "/", "c", "o", "m", "p", "o", "n", "e", "n", "t", "s", "/", "c">> }
DistFiles ==
  { <<"/", "p", "/", "d", "i", "s", "t", "/", "m", "a", "i", "n", ".", "j", "s">>, <<"/", "p", "/", "d", "i", "s", "t", "/", "c", "o", "m", "p", "o", "n", "e", "n", "t", "s", "/", "f", ".", "t", "w", "i", "g">>,
    <<"/", "p", "/", "d", "i", "s", "t", "/", "c", "o", "m", "p", "o", "n", "e", "n", "t", "s", "/", "a", "/", "g", ".", "j", "s">>, <<"/", "p", "/", "d", "i", "s", "t", "/", "c", "o", "m", "p", "o", "n", "e", "n", "t", "s", "/", "a", "/", "b", "/", "h", ".", "c", "s", "s">>,
    <<"/", "p", "/", "d", "i", "s", "t", "/", "c", "o", "m", "p", "o", "n", "e", "n", "t", "s", "/", "c", "/", "k", ".", "t", "w", "i", "g">> }
FixedDirs == {<<"/", "p">>, <<"/", "p", "/", "d", "i", "s", "t">>}

\* the names readdir can return, in the order of an ascending listing
EntryNames ==
  << <<"a">>, <<"b">>, <<"c">>, <<"c", "o", "m", "p", "o", "n", "e", "n", "t", "s">>, <<"d", "i", "s", "t">>, <<"f", ".", "t", "w", "i", "g">>, <<"g", ".", "j", "s">>,
     <<"h", ".", "c", "s", "s">>, <<"k", ".", "t", "w", "i", "g">>, <<"m", "a", "i", "n", ".", "j", "s">> >>

Reverse(s) == [i \in DOMAIN s |-> s[Len(s) + 1 - i]]

\* the entries of directory d
children(d, D, F) == {x \in D \cup F : x # d /\ pathDirname(x) = d}

\* readdirSync(dir): the names of the entries, in the listing order of the disk
readdirSync(dir, D, F, order) ==
  SelectSeq(IF order = "asc" THEN EntryNames ELSE Reverse(EntryNames),
            LAMBDA n : join(resolve(dir), n) \in D \cup F)

\* readdirSync(dir) throws: no such directory, or no permission
readdirFails(dir, D, unreadable) == resolve(dir) \notin D \/ resolve(dir) \in unreadable

(***************************************************************************)
(* plugins.js: walkFiles and pruneEmptyDirsUpTo                            *)
(***************************************************************************)
MirrorImpls == {"plugins_js", "plugins_js_v2", "part_012"}

\* part_012's makeSafeFs: a path is allowed when it lies in one of the roots
isAllowed(candidate, roots) ==
  \E root \in roots :
    startsWith(resolve(candidate) \o <<"/">>, resolve(root) \o <<"/">>)

\* walkFiles: the stack is popped from its end, files are listed as they are met
RECURSIVE walkFrom(_, _, _, _, _, _)
walkFrom(stack, found, D, F, unreadable, order) ==
  IF stack = <<>> THEN found
  ELSE LET currentDir == stack[Len(stack)]
           rest == SubSeq(stack, 1, Len(stack) - 1)
           entryNames ==
             IF readdirFails(currentDir, D, unreadable) THEN <<>>
             ELSE readdirSync(currentDir, D, F, order)
           fullPaths == [i \in DOMAIN entryNames |-> join(currentDir, entryNames[i])]
           subDirs == SelectSeq(fullPaths, LAMBDA p : resolve(p) \in D)
           plainFiles == SelectSeq(fullPaths, LAMBDA p : resolve(p) \in F)
       IN walkFrom(rest \o subDirs, found \o plainFiles, D, F, unreadable, order)

walkFiles(rootDir, D, F, unreadable, order) ==
  walkFrom(<<rootDir>>, <<>>, D, F, unreadable, order)

\* isEmpty / isDirectoryEmpty: false when the directory cannot be read;
\* part_012 reads through the safe fs, which turns a failed read into []
isEmpty(im, dir, D, F, unreadable) ==
  IF im = "part_012" /\ ~isAllowed(dir, {cwd, outDir}) THEN TRUE
  ELSE IF readdirFails(dir, D, unreadable) THEN im = "part_012"
  ELSE children(dir, D, F) = {}

\* rmdirSync(dir) succeeds: the directory exists, is empty, and the call does not fail
rmdirWorks(dir, D, F, failing) ==
  dir \in D /\ children(dir, D, F) = {} /\ dir \notin failing

\* the loop leaves at the boundary
atBoundary_never(parent, cursor, stopAbs) == FALSE
atBoundary(parent, cursor, stopAbs) == parent = cursor \/ parent = stopAbs

\* the while loop of pruneEmptyDirsUpTo: the directories left on disk
RECURSIVE pruneFrom(_, _, _, _, _, _, _)
pruneFrom(im, cursor, stopAbs, D, F, unreadable, failing) ==
  IF ~startsWith(cursor, stopAbs) THEN D
  ELSE IF ~isEmpty(im, cursor, D, F, unreadable) THEN D
  ELSE LET ok == /\ rmdirWorks(cursor, D, F, failing)
                 /\ im = "part_012" => isAllowed(cursor, {cwd, outDir})
           left == IF ok THEN D \ {cursor} ELSE D
           parent == pathDirname(cursor)
       IN IF ~ok /\ im = "plugins_js" THEN D  \* catch { break }
          ELSE IF atBoundary(parent, cursor, stopAbs) THEN left
          ELSE pruneFrom(im, parent, stopAbs, left, F, unreadable, failing)

pruneEmptyDirsUpTo(im, startDir, stopAtDir, D, F, unreadable, failing) ==
  pruneFrom(im, resolve(startDir), resolve(stopAtDir), D, F, unreadable, failing)

(***************************************************************************)
(* plugins.js: mirrorComponentsToRoot                                      *)
(***************************************************************************)
MirrorEnvs == [srcExists : BOOLEAN, platform : {"drupal", "generic"}, SDC : BOOLEAN]

\* the `enabled` option makePlugins hands to the mirror plugin
mirrorEnabled_always(im, e) == TRUE
mirrorEnabled(im, e) ==
  IF im = "part_012"
  THEN e.srcExists /\ e.platform = "drupal" /\ e.SDC
  ELSE e.srcExists /\ e.platform = "drupal"

distComponents == join(outDir, <<"c", "o", "m", "p", "o", "n", "e", "n", "t", "s">>)

\* a directory and the directories above it
RECURSIVE withParents(_)
withParents(dir) ==
  IF dir = <<"/">> \/ dir = <<".">> THEN {} ELSE {dir} \cup withParents(pathDirname(dir))

\* the trees a build may leave: every entry lies in a directory of the tree
Trees ==
  {t \in [dirs : SUBSET DistDirs, files : SUBSET DistFiles] :
     \A x \in t.dirs \cup t.files : pathDirname(x) \in t.dirs \cup FixedDirs}

mirrorInit ==
  /\ mImpl \in MirrorImpls
  /\ menv \in MirrorEnvs
  /\ \E t \in Trees : dirs = t.dirs \cup FixedDirs /\ files = t.files
  /\ locked \in {{}, {<<"/", "p", "/", "d", "i", "s", "t", "/", "c", "o", "m", "p", "o", "n", "e", "n", "t", "s", "/", "a">>}}
  /\ locked \subseteq dirs
  /\ listing \in {"asc", "desc"}
  /\ queue = <<>>
  /\ mPc = "start"
  /\ removed = {}
  /\ fault = FALSE

\* which calls of one iteration fail: mkdirSync, copyFileSync, unlinkSync, and
\* rmdirSync on one of the directories above the file; a call that is not
\* reached is listed as succeeding
FsOutcomes(im, srcFile) ==
  {c \in [ mkdirOk : BOOLEAN, copyOk : BOOLEAN, unlinkOk : BOOLEAN,
           failing : {{}} \cup {{d} : d \in withParents(pathDirname(resolve(srcFile)))
                                            \cap DistDirs} ] :
     /\ ~c.unlinkOk => c.failing = {}
     /\ (im # "part_012" /\ ~c.copyOk) => c.unlinkOk
     /\ (im # "part_012" /\ ~c.mkdirOk) => c.copyOk /\ c.unlinkOk}

\* closeBundle is entered: the two early returns, then walkFiles
MirrorStart ==
  /\ mPc = "start"
  /\ IF ~mirrorEnabled(mImpl, menv) \/ resolve(distComponents) \notin dirs
     THEN mPc' = "done" /\ queue' = queue
     ELSE /\ mPc' = "loop"
          /\ queue' = walkFiles(distComponents, dirs, files, locked, listing)
  /\ UNCHANGED <<mImpl, menv, dirs, files, locked, listing, removed, fault>>

\* one iteration of the loop over the walked files: mkdir, copy, unlink, prune
MirrorFile ==
  /\ mPc = "loop"
  /\ queue # <<>>
  /\ \E call \in FsOutcomes(mImpl, Head(queue)) :
       LET srcFile == Head(queue)
           mkdirOk == call.mkdirOk
           copyOk == call.copyOk
           unlinkOk == call.unlinkOk
           failing == call.failing
           relFromOutDir == sliceFrom(srcFile, Len(join(outDir, <<>>)))
           destFile == projectDir \o relFromOutDir
           made == IF mkdirOk THEN dirs \cup withParents(pathDirname(destFile)) ELSE dirs
           canCopy == copyOk /\ pathDirname(destFile) \in made
           copied == IF canCopy THEN files \cup {destFile} ELSE files
           \* plugins.js unlinks inside the try of the copy; part_012 unlinks regardless
           unlinks == IF mImpl = "part_012" THEN unlinkOk ELSE canCopy /\ unlinkOk
           kept == IF unlinks THEN copied \ {resolve(srcFile)} ELSE copied
           prunes == IF mImpl = "part_012" THEN TRUE ELSE unlinks
           pruned ==
             IF prunes
             THEN pruneEmptyDirsUpTo(mImpl, pathDirname(srcFile), distComponents,
                                     made, kept, locked, failing)
             ELSE made
       IN IF ~mkdirOk /\ mImpl # "part_012"
          THEN \* mkdirSync is called outside the try: closeBundle throws
               /\ mPc' = "aborted"
               /\ fault' = TRUE
               /\ UNCHANGED <<dirs, files, queue, removed>>
          ELSE /\ mPc' = mPc
               /\ dirs' = pruned
               /\ files' = kept
               /\ queue' = Tail(queue)
               /\ removed' = removed \cup (made \ pruned)
               /\ fault' = (fault \/ ~mkdirOk \/ ~canCopy \/ ~unlinkOk \/ failing # {})
  /\ UNCHANGED <<mImpl, menv, locked, listing>>

\* after the loop: prune dist/components itself, up to the output root
MirrorEnd ==
  /\ mPc = "loop"
  /\ queue = <<>>
  /\ \E failing \in {{}, {resolve(distComponents)}} :
       LET pruned == pruneEmptyDirsUpTo(mImpl, distComponents, outDir,
                                       dirs, files, locked, failing)
       IN /\ dirs' = pruned
          /\ removed' = removed \cup (dirs \ pruned)
          /\ fault' = (fault \/ failing # {})
  /\ mPc' = "done"
  /\ UNCHANGED <<mImpl, menv, files, locked, listing, queue>>

MirrorIdle ==
  /\ mImpl = "idle" /\ menv = [srcExists |-> FALSE, platform |-> "generic", SDC |-> FALSE]
  /\ dirs = {} /\ files = {} /\ locked = {} /\ listing = "asc"
  /\ queue = <<>> /\ mPc = "idle" /\ removed = {} /\ fault = FALSE

(***************************************************************************)
(* plugins.js: svgSpriteFilePlugin                                         *)
(***************************************************************************)
SpriteImpls == {"plugins_js", "part_012"}

\* the icon files a project may hold, by path from the project root
IconFiles ==
  { <<"a", "s", "s", "e", "t", "s", "/", "i", "c", "o", "n", "s", "/", "b", "u", "t", "t", "o", "n", ".", "s", "v", "g">>, <<"s", "r", "c", "/", "a", "s", "s", "e", "t", "s", "/", "i", "c", "o", "n", "s", "/", "b", "u", "t", "t", "o", "n", ".", "s", "v", "g">>,
    <<"s", "r", "c", "/", "c", "/", "i", "c", "o", "n", "s", "/", "b", "u", "t", "t", "o", "n", "-", "2", ".", "s", "v", "g">>, <<"s", "r", "c", "/", "c", "/", "i", "c", "o", "n", "s", "/", "b", "u", "t", "t", "o", "n", ".", "2", ".", "s", "v", "g">> }

\* what readFileSync gives for a file: its text, an empty text, or an error
IconContents == {"svg", "empty", "unreadable"}

\* the include option makePlugins passes: the project's own icons by absolute
\* and by relative pattern, then the icons under src/
include ==
  << [root |-> cwd \o <<"/", "a", "s", "s", "e", "t", "s", "/", "i", "c", "o", "n", "s">>, icons |-> FALSE],
     [root |-> <<"a", "s", "s", "e", "t", "s", "/", "i", "c", "o", "n", "s">>, icons |-> FALSE],
     [root |-> <<"s", "r", "c", "/", "a", "s", "s", "e", "t", "s", "/", "i", "c", "o", "n", "s">>, icons |-> FALSE],
     [root |-> <<"s", "r", "c">>, icons |-> TRUE] >>

\* the file on disk a matched path names
diskFile(path) ==
  IF startsWith(path, cwd \o <<"/">>) THEN sliceFrom(path, Len(cwd) + 1) ELSE path

\* whether path matches root/**/*.svg, or root/**/icons/**/*.svg
globMatches(p, path) ==
  /\ startsWith(path, p.root \o <<"/">>)
  /\ endsWith(path, <<".", "s", "v", "g">>)
  /\ Len(basename(path)) > Len(<<".", "s", "v", "g">>)
  /\ p.icons =>
       includes(slice(path, Len(p.root), lastIndexOf(path, <<"/">>) + 1), <<"/", "i", "c", "o", "n", "s", "/">>)

\* globSyncIcons(p): a match is spelled as the pattern is, absolute or relative
globSyncIcons(p, disk) ==
  LET spelled(f) == IF Head(p.root) = "/" THEN cwd \o <<"/">> \o f ELSE f
  IN {spelled(f) : f \in {g \in DOMAIN disk : globMatches(p, spelled(g))}}

\* localeCompare on the characters of these paths: punctuation sorts before
\* digits, digits before letters
CollationOrder == <<" ", "_", "-", ".", "/", "0", "1", "2", "3", "4", "5", "6", "7", "8", "9", "a", "b", "c", "d", "e", "f", "g", "h", "i", "j", "k", "l", "m", "n", "o", "p", "q", "r", "s", "t", "u", "v", "w", "x", "y", "z">>
rank(c) == CHOOSE i \in DOMAIN CollationOrder : CollationOrder[i] = c
RECURSIVE localeCompare(_, _)
localeCompare(a, b) ==
  IF a = <<>> THEN (IF b = <<>> THEN 0 ELSE -1)
  ELSE IF b = <<>> THEN 1
  ELSE IF rank(Head(a)) < rank(Head(b)) THEN -1
  ELSE IF rank(Head(a)) > rank(Head(b)) THEN 1
  ELSE localeCompare(Tail(a), Tail(b))

\* Array.prototype.sort with localeCompare; the sort is stable
RECURSIVE insertSorted(_, _)
insertSorted(x, s) ==
  IF s = <<>> THEN <<x>>
  ELSE IF localeCompare(x, Head(s)) < 0 THEN <<x>> \o s
  ELSE <<Head(s)>> \o insertSorted(x, Tail(s))
RECURSIVE sortPaths(_)
sortPaths(s) ==
  IF s = <<>> THEN <<>>
  ELSE insertSorted(s[Len(s)], sortPaths(SubSeq(s, 1, Len(s) - 1)))

\* a set of paths as a list, in the order a glob walk meets them
RECURSIVE listOf(_)
listOf(S) ==
  IF S = {} THEN <<>>
  ELSE LET x == CHOOSE y \in S : \A z \in S : localeCompare(y, z) <= 0
       IN <<x>> \o listOf(S \ {x})

\* patterns.flatMap((p) => globSyncIcons(p)): the matches of every pattern, appended
RECURSIVE flatMapGlob(_, _)
flatMapGlob(ps, disk) ==
  IF ps = <<>> THEN <<>>
  ELSE listOf(globSyncIcons(Head(ps), disk)) \o flatMapGlob(Tail(ps), disk)

\* .replace(/[^a-z0-9_-]+/g, '-'): each run of other characters becomes one dash
IdChars == Range(LowerSeq) \cup Range(DigitSeq) \cup {"_", "-"}
RECURSIVE dashRuns(_, _)
dashRuns(s, inRun) ==
  IF s = <<>> THEN <<>>
  ELSE IF Head(s) \in IdChars THEN <<Head(s)>> \o dashRuns(Tail(s), FALSE)
  ELSE IF inRun THEN dashRuns(Tail(s), TRUE)
  ELSE <<"-">> \o dashRuns(Tail(s), TRUE)

\* .replace(/^-+|-+$/g, '')
RECURSIVE stripDashesStart(_)
stripDashesStart(s) ==
  IF s # <<>> /\ Head(s) = "-" THEN stripDashesStart(Tail(s)) ELSE s
RECURSIVE stripDashesEnd(_)
stripDashesEnd(s) ==
  IF s # <<>> /\ s[Len(s)] = "-"
  THEN stripDashesEnd(SubSeq(s, 1, Len(s) - 1)) ELSE s

safeId(s) == stripDashesEnd(stripDashesStart(dashRuns(toLowerCase(s), FALSE)))

\* basename(file).replace(/\.svg$/i, '')
stem(file) ==
  LET b == basename(file)
  IN IF endsWith(toLowerCase(b), <<".", "s", "v", "g">>) THEN slice(b, 0, Len(b) - 4) ELSE b

\* symbolId.replace('[name]', stem) for symbolId 'icon-[name]'
symbolIdFor(name) == <<"i", "c", "o", "n", "-">> \o name

\* `${i}` for a small number
numStr(i) ==
  IF i < 10 THEN <<DigitSeq[i + 1]>>
  ELSE <<DigitSeq[(i \div 10) + 1], DigitSeq[(i % 10) + 1]>>

\* while (usedIds.has(`${id}-${i}`)) i += 1
RECURSIVE nextFree(_, _, _)
nextFree(id, i, used) ==
  IF (id \o <<"-">> \o numStr(i)) \in used THEN nextFree(id, i + 1, used) ELSE i

\* idFor: the identifier of a file, given the identifiers already handed out
idFor_noSuffix(file, used) == safeId(symbolIdFor(stem(file)))
idFor(file, used) ==
  LET id == safeId(symbolIdFor(stem(file)))
  IN IF id \notin used THEN id
     ELSE id \o <<"-">> \o numStr(nextFree(id, 2, used))

\* toSymbol returns '' for a file it cannot read; part_012 reads through the
\* safe file system, which gives '' for an error, and skips an empty text too
skipsFile(im, content) ==
  \/ content = "unreadable"
  \/ im = "part_012" /\ content = "empty"

spriteInit ==
  /\ sImpl \in SpriteImpls
  /\ \E present \in SUBSET IconFiles : iconDisk \in [present -> IconContents]
  /\ sPc = "start" /\ sQueue = <<>> /\ usedIds = {} /\ symbols = <<>>

\* generateBundle: the matches of all patterns, sorted; nothing to do without
SpriteStart ==
  /\ sPc = "start"
  /\ LET found == sortPaths(flatMapGlob(include, iconDisk))
     IN /\ sQueue' = found
        /\ sPc' = IF found = <<>> THEN "skipped" ELSE "map"
  /\ UNCHANGED <<sImpl, iconDisk, usedIds, symbols>>

\* files.map(toSymbol): one file
SpriteFile ==
  /\ sPc = "map" /\ sQueue # <<>>
  /\ LET abs == Head(sQueue)
         id == idFor(abs, usedIds)
     IN IF skipsFile(sImpl, iconDisk[diskFile(abs)])
        THEN UNCHANGED <<usedIds, symbols>>
        ELSE /\ usedIds' = usedIds \cup {id}
             /\ symbols' = Append(symbols, [file |-> abs, id |-> id])
  /\ sQueue' = Tail(sQueue)
  /\ UNCHANGED <<sImpl, iconDisk, sPc>>

\* .filter(Boolean), then emitFile; part_012 emits nothing without a symbol
SpriteEmit ==
  /\ sPc = "map" /\ sQueue = <<>>
  /\ sPc' = IF sImpl = "part_012" /\ symbols = <<>> THEN "skipped" ELSE "emitted"
  /\ UNCHANGED <<sImpl, iconDisk, sQueue, usedIds, symbols>>

SpriteIdle ==
  /\ sImpl = "idle" /\ iconDisk = <<>> /\ sPc = "idle"
  /\ sQueue = <<>> /\ usedIds = {} /\ symbols = <<>>

(***************************************************************************)
(* plugins.js: copyTwigFilesPlugin and copyAllSrcAssetsPlugin              *)
(***************************************************************************)
\* env.srcDir of a project that has a src/ directory
srcDir == cwd \o <<"/", "s", "r", "c">>

\* the files a source tree may hold, in the order a glob walk lists them
SrcFileList ==
  << <<"/", "p", "/", "s", "r", "c", "/", "c", "o", "m", "p", "o", "n", "e", "n", "t", "s", "/", "a", "/", "_", "a", ".", "c", "o", "m", "p", "o", "n", "e", "n", "t", ".", "y", "m", "l">>,
     <<"/", "p", "/", "s", "r", "c", "/", "c", "o", "m", "p", "o", "n", "e", "n", "t", "s", "/", "a", "/", "_", "i", ".", "p", "n", "g">>,
     <<"/", "p", "/", "s", "r", "c", "/", "c", "o", "m", "p", "o", "n", "e", "n", "t", "s", "/", "a", "/", "_", "p", ".", "t", "w", "i", "g">>,
     <<"/", "p", "/", "s", "r", "c", "/", "c", "o", "m", "p", "o", "n", "e", "n", "t", "s", "/", "a", "/", "a", ".", "j", "s">>,
     <<"/", "p", "/", "s", "r", "c", "/", "c", "o", "m", "p", "o", "n", "e", "n", "t", "s", "/", "a", "/", "a", ".", "t", "w", "i", "g">>,
     <<"/", "p", "/", "s", "r", "c", "/", "c", "o", "m", "p", "o", "n", "e", "n", "t", "s", "/", "a", "/", "p", "/", "s", "r", "c", "/", "_", "b", ".", "t", "w", "i", "g">>,
     <<"/", "p", "/", "s", "r", "c", "/", "f", "o", "n", "t", "s", "/", "_", "f", ".", "w", "o", "f", "f">>,
     <<"/", "p", "/", "s", "r", "c", "/", "l", "a", "y", "o", "u", "t", "/", "_", "l", ".", "t", "w", "i", "g">>,
     <<"/", "p", "/", "s", "r", "c", "/", "l", "a", "y", "o", "u", "t", "/", "l", ".", "t", "w", "i", "g">>,
     <<"/", "p", "/", "s", "r", "c", "/", "u", "t", "i", "l", "/", "u", ".", "t", "w", "i", "g">> >>

\* isPartial: the last segment of the path, trimmed, starts with an underscore
isPartial(filePath) == startsWith(trim(basename(filePath)), <<"_">>)

\* a path lies under directory d: the pattern d/**
underDir(path, d) == startsWith(path, d \o <<"/">>)

\* the last segment keeps *suffix; without the dot option * takes no
\* leading dot
starMatches(path, suffix) ==
  LET b == basename(path)
  IN Len(b) > Len(suffix) /\ endsWith(b, suffix) /\ Head(b) # "."

\* the last segment keeps *.component.@(yml|yaml) or *.component.json
isYamlMeta(path) ==
  starMatches(path, <<".", "c", "o", "m", "p", "o", "n", "e", "n", "t", ".", "y", "m", "l">>) \/ starMatches(path, <<".", "c", "o", "m", "p", "o", "n", "e", "n", "t", ".", "y", "a", "m", "l">>)
isJsonMeta(path) == starMatches(path, <<".", "c", "o", "m", "p", "o", "n", "e", "n", "t", ".", "j", "s", "o", "n">>)

\* the ignore lists of copyAllSrcAssetsPlugin: code, templates, metadata, maps
isCodeLike(path) ==
  LET b == basename(path)
  IN \/ endsWith(b, <<".", "j", "s">>) \/ endsWith(b, <<".", "s", "c", "s", "s">>) \/ endsWith(b, <<".", "t", "w", "i", "g">>)
     \/ endsWith(b, <<".", "m", "a", "p">>)
     \/ endsWith(b, <<".", "c", "o", "m", "p", "o", "n", "e", "n", "t", ".", "y", "m", "l">>) \/ endsWith(b, <<".", "c", "o", "m", "p", "o", "n", "e", "n", "t", ".", "y", "a", "m", "l">>)
     \/ endsWith(b, <<".", "c", "o", "m", "p", "o", "n", "e", "n", "t", ".", "j", "s", "o", "n">>)

\* the ignore list of the global loops: components/**, util/**
inComponentsOrUtil(path) ==
  underDir(path, srcDir \o <<"/", "c", "o", "m", "p", "o", "n", "e", "n", "t", "s">>) \/ underDir(path, srcDir \o <<"/", "u", "t", "i", "l">>)

\* globSync(pattern, { ignore }) over the files on disk, as a list
globList(disk, keeps(_)) ==
  SelectSeq(SrcFileList, LAMBDA f : f \in disk /\ keeps(f))

\* posix(absPath).split(posix(srcDir) + '/')[1]
relFromSrc(file) == splitSecond(toPosix(file), toPosix(srcDir) \o <<"/">>)

\* the destination under dist/components or dist/global
toComponents(file) ==
  [src |-> file,
   dest |-> join(join(outDir, <<"c", "o", "m", "p", "o", "n", "e", "n", "t", "s">>), stripComponentsPrefix(relFromSrc(file)))]
toGlobal(file) ==
  [src |-> file, dest |-> join(join(outDir, <<"g", "l", "o", "b", "a", "l">>), relFromSrc(file))]

mapSeq(s, f(_)) == [i \in DOMAIN s |-> f(s[i])]

\* copyTwigFilesPlugin.closeBundle: the copies its loops make, in order
componentTwigCopies(disk) ==
  LET componentTwigs ==
        globList(disk, LAMBDA f : underDir(f, srcDir \o <<"/", "c", "o", "m", "p", "o", "n", "e", "n", "t", "s">>)
                                    /\ starMatches(f, <<".", "t", "w", "i", "g">>))
  IN mapSeq(SelectSeq(componentTwigs,
                      LAMBDA f : ~isPartial(stripComponentsPrefix(relFromSrc(f)))),
            toComponents)
metadataCopies(disk) ==
  mapSeq(globList(disk, LAMBDA f : underDir(f, srcDir \o <<"/", "c", "o", "m", "p", "o", "n", "e", "n", "t", "s">>)
                                     /\ isYamlMeta(f)), toComponents)
  \o mapSeq(globList(disk, LAMBDA f : underDir(f, srcDir \o <<"/", "c", "o", "m", "p", "o", "n", "e", "n", "t", "s">>)
                                        /\ isJsonMeta(f)), toComponents)
globalTwigCopies(disk) ==
  mapSeq(globList(disk, LAMBDA f : /\ underDir(f, srcDir)
                                     /\ starMatches(f, <<".", "t", "w", "i", "g">>)
                                     /\ ~inComponentsOrUtil(f)
                                     /\ Head(basename(f)) # "_"), toGlobal)

\* copyAllSrcAssetsPlugin.closeBundle: the copies its loops make, in order
componentAssetCopies(disk) ==
  mapSeq(globList(disk, LAMBDA f : /\ underDir(f, srcDir \o <<"/", "c", "o", "m", "p", "o", "n", "e", "n", "t", "s">>)
                                     /\ Head(basename(f)) # "."
                                     /\ ~isCodeLike(f)), toComponents)
globalAssetCopies(disk) ==
  mapSeq(globList(disk, LAMBDA f : /\ underDir(f, srcDir)
                                     /\ Head(basename(f)) # "."
                                     /\ ~inComponentsOrUtil(f)
                                     /\ ~isCodeLike(f)), toGlobal)

copyInit ==
  /\ srcFiles \in SUBSET Range(SrcFileList)
  /\ cPc = "start" /\ cQueue = <<>> /\ copies = {}

\* copyTwigFilesPlugin.closeBundle: the three globs
CopyTwigStart ==
  /\ cPc = "start"
  /\ cQueue' = componentTwigCopies(srcFiles) \o metadataCopies(srcFiles)
                 \o globalTwigCopies(srcFiles)
  /\ cPc' = "twig"
  /\ UNCHANGED <<srcFiles, copies>>

\* copyAllSrcAssetsPlugin.closeBundle: the two globs; the hook runs whether
\* or not the hook before it threw
CopyAssetsStart ==
  /\ cPc \in {"twigDone", "twigAborted"}
  /\ cQueue' = componentAssetCopies(srcFiles) \o globalAssetCopies(srcFiles)
  /\ cPc' = "assets"
  /\ UNCHANGED <<srcFiles, copies>>

\* one iteration of a loop: mkdirSync, which may throw out of the hook, then
\* copyFileSync, whose error is swallowed
CopyFile ==
  /\ cPc \in {"twig", "assets"} /\ cQueue # <<>>
  /\ \E outcome \in {"copied", "copyFailed", "mkdirThrew"} :
       /\ copies' = IF outcome = "copied" THEN copies \cup {Head(cQueue)} ELSE copies
       /\ cQueue' = IF outcome = "mkdirThrew" THEN <<>> ELSE Tail(cQueue)
       /\ cPc' = IF outcome # "mkdirThrew" THEN cPc
                 ELSE IF cPc = "twig" THEN "twigAborted" ELSE "aborted"
  /\ UNCHANGED srcFiles

\* the loops of a hook are over
CopyLoopsEnd ==
  /\ cPc \in {"twig", "assets"} /\ cQueue = <<>>
  /\ cPc' = IF cPc = "twig" THEN "twigDone" ELSE "done"
  /\ UNCHANGED <<srcFiles, cQueue, copies>>

CopyIdle == srcFiles = {} /\ cPc = "idle" /\ cQueue = <<>> /\ copies = {}

(***************************************************************************)
(* entries.js: the keys of component files, for projects at any path       *)
(***************************************************************************)
\* where a project may live
KeyProjects == {<<"/", "p">>, <<"/", "w", "/", "c", "o", "m", "p", "o", "n", "e", "n", "t", "s", "/", "p">>}

\* component files, by path from <srcDir>/components
KeyRels ==
  { <<"x", "/", "a", ".", "j", "s">>, <<"x", "/", "a", ".", "s", "c", "s", "s">>, <<"x", "/", "c", "o", "m", "p", "o", "n", "e", "n", "t", "s", "/", "b", ".", "j", "s">>, <<"x", "/", "c", "o", "m", "p", "o", "n", "e", "n", "t", "s", "/", "c", ".", "j", "s">>,
    <<"x", "/", "c", "o", "m", "p", "o", "n", "e", "n", "t", "s", "/", "b", ".", "s", "c", "s", "s">> }

\* at most this many files are keyed in one run
MaxKeyed == 2

\* the env of a project at path p that has a src/ directory
keyContext(p, SDC) ==
  [projectDir |-> p, srcDir |-> p \o <<"/", "s", "r", "c">>, srcExists |-> TRUE, SDC |-> SDC]

\* the loop a file is walked by: the JS globs end in .js, the SCSS globs in .scss
keyType(file) == IF endsWith(file, <<".", "j", "s">>) THEN "js" ELSE "css"

keyInit ==
  /\ kImpl \in Impls
  /\ kProject \in KeyProjects
  /\ kSdc \in BOOLEAN
  /\ \E rels \in SUBSET KeyRels :
       /\ Cardinality(rels) <= MaxKeyed
       /\ kFiles = {kProject \o <<"/", "s", "r", "c", "/", "c", "o", "m", "p", "o", "n", "e", "n", "t", "s", "/">> \o r : r \in rels}
  /\ kTodo = kFiles
  /\ kInputs = <<>>
  /\ kPc \in {"component"} \cup (IF kImpl = "entries_v1" THEN {} ELSE {"override"})

\* one iteration of the component JS or the component SCSS loop
KeyComponentFile ==
  /\ kPc = "component"
  /\ \E file \in kTodo :
       /\ (keyType(file) = "css" => \A g \in kTodo : keyType(g) = "css")
       /\ kInputs' = add(kImpl, kInputs,
                         componentKey(kImpl, file, keyType(file),
                                      keyContext(kProject, kSdc)), file)
       /\ kTodo' = kTodo \ {file}
  /\ UNCHANGED <<kImpl, kProject, kSdc, kFiles, kPc>>

\* one iteration of the JS or the SCSS loop of the structure-override branch
KeyOverrideFile ==
  /\ kPc = "override"
  /\ \E file \in kTodo :
       /\ (keyType(file) = "css" => \A g \in kTodo : keyType(g) = "css")
       /\ kInputs' = add(kImpl, kInputs,
                         IF keyType(file) = "js"
                         THEN overrideJsKey(file, keyContext(kProject, kSdc))
                         ELSE overrideCssKey(file, keyContext(kProject, kSdc)),
                         file)
       /\ kTodo' = kTodo \ {file}
  /\ UNCHANGED <<kImpl, kProject, kSdc, kFiles, kPc>>

\* the loops of the branch are over: the map is returned
KeyLoopsEnd ==
  /\ kPc \in {"component", "override"}
  /\ kTodo = {}
  /\ kPc' = IF kPc = "component" THEN "componentDone" ELSE "overrideDone"
  /\ UNCHANGED <<kImpl, kProject, kSdc, kFiles, kTodo, kInputs>>

KeyIdle ==
  /\ kImpl = "idle" /\ kProject = <<>> /\ kSdc = FALSE /\ kFiles = {}
  /\ kTodo = {} /\ kInputs = <<>> /\ kPc = "idle"

(***************************************************************************)
(* webpack.common.js: addEntry                                             *)
(***************************************************************************)
\* at most this many addEntry calls are made on one Map
MaxCalls == 4

\* the keys and files buildEntries may pass to addEntry
EntryKeys ==
  { <<"d", "i", "s", "t", "/", "c", "o", "m", "p", "o", "n", "e", "n", "t", "s", "/", "x", "/", "a">>, <<"d", "i", "s", "t", "/", "c", "o", "m", "p", "o", "n", "e", "n", "t", "s", "/", "x", "/", "a", ".", "b">>, <<"d", "i", "s", "t", "/", "c", "o", "m", "p", "o", "n", "e", "n", "t", "s", "/", "x", "/", "a", "b">>,
    <<"d", "i", "s", "t", "/", "c", "o", "m", "p", "o", "n", "e", "n", "t", "s", "/", "p", "r", "o", "t", "o", "t", "y", "p", "e", "/", "p">>, <<".">> }
EntryFiles ==
  { <<"/", "p", "/", "s", "r", "c", "/", "c", "o", "m", "p", "o", "n", "e", "n", "t", "s", "/", "x", "/", "a", ".", "j", "s">>, <<"/", "p", "/", "s", "r", "c", "/", "c", "o", "m", "p", "o", "n", "e", "n", "t", "s", "/", "x", "/", "a", ".", "s", "c", "s", "s">>,
    <<"/", "p", "/", "s", "r", "c", "/", "c", "o", "m", "p", "o", "n", "e", "n", "t", "s", "/", "x", "/", "b", ".", "j", "s">> }

\* the revision that merges arrays calls sanitizePath, which only the
\* revision before it in the same file defines: the name resolves when the
\* file is read as one scope, and is a ReferenceError within the revision
WebpackScopes == {"file", "revision"}

isDangerousKey(k) ==
  includes(k, <<"_", "_", "p", "r", "o", "t", "o", "_", "_">>) \/ includes(k, <<"p", "r", "o", "t", "o", "t", "y", "p", "e">>) \/ k = <<"c", "o", "n", "s", "t", "r", "u", "c", "t", "o", "r">>

\* (a, b) => ax - bx || a.localeCompare(b)
entryCompare(a, b) ==
  LET ax == IF endsWith(a, <<".", "j", "s">>) THEN 0 ELSE 1
      bx == IF endsWith(b, <<".", "j", "s">>) THEN 0 ELSE 1
  IN IF ax - bx # 0 THEN ax - bx ELSE localeCompare(a, b)

\* arr.sort(compare); the sort is stable
RECURSIVE insertEntry(_, _)
insertEntry(x, s) ==
  IF s = <<>> THEN <<x>>
  ELSE IF entryCompare(x, Head(s)) < 0 THEN <<x>> \o s
  ELSE <<Head(s)>> \o insertEntry(x, Tail(s))
RECURSIVE sortEntries(_)
sortEntries(s) ==
  IF s = <<>> THEN <<>>
  ELSE insertEntry(s[Len(s)], sortEntries(SubSeq(s, 1, Len(s) - 1)))

\* a value of the Map: one file, or an array of files
oneFile(file) == [isArray |-> FALSE, items |-> <<file>>]
arrayOf(arr) == [isArray |-> TRUE, items |-> arr]

\* addEntry(map, key, file), for a sanitizePath that resolves
addEntry_noSort(map, key, file) ==
  LET safeKey == sanitizePath(key)
  IN IF safeKey = <<>> \/ isDangerousKey(safeKey) THEN map
     ELSE IF safeKey \notin DOMAIN map THEN mapSet(map, safeKey, oneFile(file))
     ELSE LET arr == map[safeKey].items
              pushed == IF file \in Range(arr) THEN arr ELSE Append(arr, file)
          IN mapSet(map, safeKey, arrayOf(pushed))
addEntry(map, key, file) ==
  LET safeKey == sanitizePath(key)
  IN IF safeKey = <<>> \/ isDangerousKey(safeKey) THEN map
     ELSE IF safeKey \notin DOMAIN map THEN mapSet(map, safeKey, oneFile(file))
     ELSE LET arr == map[safeKey].items
              pushed == IF file \in Range(arr) THEN arr ELSE Append(arr, file)
          IN mapSet(map, safeKey, arrayOf(sortEntries(pushed)))

webpackInit ==
  /\ wScope \in WebpackScopes
  /\ wMap = <<>> /\ wCalls = {} /\ wCount = 0 /\ wPc = "ready"

\* one call of addEntry that returns
AddEntry ==
  /\ wPc = "ready" /\ wScope = "file" /\ wCount < MaxCalls
  /\ \E key \in EntryKeys, file \in EntryFiles :
       /\ wMap' = addEntry(wMap, key, file)
       /\ wCalls' = wCalls \cup {[key |-> key, file |-> file]}
  /\ wCount' = wCount + 1
  /\ UNCHANGED <<wScope, wPc>>

\* one call of addEntry that throws at sanitizePath
AddEntryThrows ==
  /\ wPc = "ready" /\ wScope = "revision" /\ wCount < MaxCalls
  /\ \E key \in EntryKeys, file \in EntryFiles :
       wCalls' = wCalls \cup {[key |-> key, file |-> file]}
  /\ wCount' = wCount + 1
  /\ wPc' = "threw"
  /\ UNCHANGED <<wScope, wMap>>

WebpackIdle ==
  wScope = "idle" /\ wMap = <<>> /\ wCalls = {} /\ wCount = 0 /\ wPc = "idle"

(***************************************************************************)
(* .storybook/_drupal.js: Drupal.attachBehaviors                           *)
(***************************************************************************)
\* at most this many behaviours are registered
MaxBehaviors == 3

\* what a property of Drupal.behaviors may hold: null or undefined, an object
\* without an attach function, an object whose attach returns, an object
\* whose attach throws
BehaviorKinds == {"nullish", "noAttach", "attachReturns", "attachThrows"}

\* typeof behaviors[i].attach === 'function'; reading .attach of null or
\* undefined is a TypeError
readingAttachThrows(b) == b = "nullish"
hasAttach(b) == b \in {"attachReturns", "attachThrows"}

drupalInit ==
  /\ behaviors \in UNION {[1..n -> BehaviorKinds] : n \in 0..MaxBehaviors}
  /\ dNext = 1 /\ attached = <<>> /\ timers = <<>> /\ rethrown = <<>>
  /\ dPc = "ready"

\* Drupal.attachBehaviors is called: defaults, Object.keys(behaviors)
AttachBehaviors ==
  /\ dPc = "ready"
  /\ dPc' = "forEach"
  /\ UNCHANGED <<behaviors, dNext, attached, timers, rethrown>>

\* one call of the forEach callback
AttachBehavior ==
  /\ dPc = "forEach" /\ dNext <= Len(behaviors)
  /\ LET b == behaviors[dNext]
     IN IF readingAttachThrows(b)
        THEN \* the TypeError is raised outside the try: forEach is left
             /\ dPc' = "threw"
             /\ UNCHANGED <<dNext, attached, timers>>
        ELSE /\ dPc' = dPc
             /\ dNext' = dNext + 1
             /\ attached' = IF hasAttach(b) THEN Append(attached, dNext) ELSE attached
             /\ timers' = IF hasAttach(b) /\ b = "attachThrows"
                          THEN Append(timers, dNext) ELSE timers
  /\ UNCHANGED <<behaviors, rethrown>>

\* forEach has visited every key: attachBehaviors returns
AttachReturns ==
  /\ dPc = "forEach" /\ dNext > Len(behaviors)
  /\ dPc' = "returned"
  /\ UNCHANGED <<behaviors, dNext, attached, timers, rethrown>>

\* a setTimeout(..., 0) callback runs once the call stack is empty
TimerFires ==
  /\ dPc \in {"returned", "threw"} /\ timers # <<>>
  /\ rethrown' = Append(rethrown, Head(timers))
  /\ timers' = Tail(timers)
  /\ UNCHANGED <<behaviors, dNext, attached, dPc>>

DrupalIdle ==
  /\ behaviors = <<>> /\ dNext = 1 /\ attached = <<>> /\ timers = <<>>
  /\ rethrown = <<>> /\ dPc = "idle"

(***************************************************************************)
(* .storybook/manager.js: the theme of the manager UI                      *)
(***************************************************************************)
ManagerImpls == {"manager_js", "part_004"}

\* the keys a project's theme object may have
ThemeKeys == {"base", "brandTitle", "brandUrl", "colorPrimary"}

\* the default export of the project's theme module: nothing, null, or an
\* object with some keys
DefaultExports ==
  {[kind |-> "undefined", keys |-> {}], [kind |-> "null", keys |-> {}]}
    \cup [kind : {"object"}, keys : SUBSET ThemeKeys]

\* what the dynamic import settles to: a rejection, or the module namespace
ImportOutcomes ==
  {[rejected |-> TRUE, default |-> [kind |-> "undefined", keys |-> {}]]}
    \cup [rejected : {FALSE}, default : DefaultExports]

\* the themes addons.setConfig may be given
emulsifyTheme == [kind |-> "emulsifyTheme", keys |-> {}]
moduleNamespace(m) == [kind |-> "module", keys |-> {"default"}]
undefinedTheme == [kind |-> "undefined", keys |-> {}]

\* manager.js: !customTheme || (typeof customTheme === 'object' && no keys)
isEmptyObject(customTheme) ==
  customTheme.kind \in {"undefined", "null"}
    \/ (customTheme.kind = "object" /\ customTheme.keys = {})

\* the setConfig calls the module makes once the import has settled
setConfigCalls_part004(m) ==
  IF m.rejected
  THEN <<emulsifyTheme, undefinedTheme>>
  ELSE <<moduleNamespace(m)>>
setConfigCalls_js(m) ==
  IF m.rejected THEN <<emulsifyTheme>>
  ELSE IF isEmptyObject(m.default) THEN <<emulsifyTheme>>
  ELSE <<m.default>>
setConfigCalls(im, m) ==
  IF im = "part_004" THEN setConfigCalls_part004(m) ELSE setConfigCalls_js(m)

managerInit ==
  /\ gImpl \in ManagerImpls
  /\ imported \in ImportOutcomes
  /\ configured = <<>>
  /\ gPc = "start"

\* the module is evaluated: the dynamic import starts
ManagerStart ==
  /\ gPc = "start"
  /\ gPc' = "importing"
  /\ UNCHANGED <<gImpl, imported, configured>>

\* the import promise settles
ImportSettles ==
  /\ gPc = "importing"
  /\ gPc' = IF imported.rejected THEN "rejected" ELSE "fulfilled"
  /\ UNCHANGED <<gImpl, imported, configured>>

\* the handlers run: then/catch in manager.js, catch/finally in part_004
ApplyTheme ==
  /\ gPc \in {"rejected", "fulfilled"}
  /\ configured' = configured \o setConfigCalls(gImpl, imported)
  /\ gPc' = "loaded"
  /\ UNCHANGED <<gImpl, imported>>

ManagerIdle ==
  /\ gImpl = "idle"
  /\ imported = [rejected |-> TRUE, default |-> [kind |-> "undefined", keys |-> {}]]
  /\ configured = <<>> /\ gPc = "idle"

(***************************************************************************)
(* plugins.js: the prune helper, called on its own                         *)
(***************************************************************************)
\* the directories a call may name as start or boundary
PruneDirs == DistDirs \cup {<<"/", "p", "/", "d", "i", "s", "t">>}

pruneInit ==
  /\ pImpl \in MirrorImpls
  /\ pStart \in PruneDirs /\ pStop \in PruneDirs
  /\ \E t \in Trees : pDirs = t.dirs \cup FixedDirs /\ pFiles = t.files
  /\ pPc = "ready"

\* pruneEmptyDirsUpTo(startDir, stopAtDir) with every rmdir succeeding
PruneCall ==
  /\ pPc = "ready"
  /\ pDirs' = pruneEmptyDirsUpTo(pImpl, pStart, pStop, pDirs, pFiles, {}, {})
  /\ pPc' = "done"
  /\ UNCHANGED <<pImpl, pStart, pStop, pFiles>>

\* the same call on a disk where rmdir of the start directory fails
PruneFails ==
  /\ pPc = "ready"
  /\ pDirs' = pruneEmptyDirsUpTo(pImpl, pStart, pStop, pDirs, pFiles, {}, {pStart})
  /\ pPc' = "failed"
  /\ UNCHANGED <<pImpl, pStart, pStop, pFiles>>

PruneIdle ==
  /\ pImpl = "idle" /\ pStart = <<>> /\ pStop = <<>> /\ pDirs = {}
  /\ pFiles = {} /\ pPc = "idle"

(***************************************************************************)
(* resolveEnvironment: structureOverrides / legacyVariant                  *)
(***************************************************************************)
OverrideImpls == {"part_013", "part_014"}

\* at most this many entries in variant.structureImplementations
MaxRoots == 2

\* the directories an entry may name
RootDirs == {<<"c", "o", "m", "p", "o", "n", "e", "n", "t", "s">>, <<"s", "r", "c", "/", "c", "o", "m", "p", "o", "n", "e", "n", "t", "s">>, <<".", ".", "/", "s", "h", "a", "r", "e", "d">>, <<"/", "e", "t", "c">>}

\* an entry of the list: null, a path string, or a {name, directory} object
RootEntries ==
  {[form |-> "null", directory |-> <<>>]}
    \cup [form : {"string", "object"}, directory : RootDirs]

\* the value of variant.structureImplementations: missing, or an array
RootLists ==
  {[set |-> FALSE, val |-> <<>>]}
    \cup [set : {TRUE}, val : UNION {[1..n -> RootEntries] : n \in 0..MaxRoots}]

\* path.resolve(base, candidate) for the candidates above
RECURSIVE resolveFrom(_, _)
resolveFrom(base, candidate) ==
  IF candidate # <<>> /\ Head(candidate) = "/" THEN candidate
  ELSE IF startsWith(candidate, <<".", ".", "/">>)
       THEN resolveFrom(pathDirname(base), sliceFrom(candidate, 3))
  ELSE IF base = <<"/">> THEN base \o candidate
  ELSE join(base, candidate)

\* coerceToProjectPath: the absolute path when it lies in the project
insideProject(candidate) ==
  LET absCandidate == resolveFrom(projectDir, candidate)
  IN absCandidate = projectDir \/ startsWith(absCandidate, projectDir \o <<"/">>)

\* part_013 146-169: filter(Boolean), then resolve(projectDir, entry) in the
\* try block; path.resolve throws for an entry that is not a string, and the
\* catch leaves structureRoots at []
structureRoots_p13(list) ==
  LET maybeRoots == IF list.set THEN list.val ELSE <<>>
      kept == SelectSeq(maybeRoots, LAMBDA e : e.form # "null")
  IN IF \E i \in DOMAIN kept : kept[i].form # "string" THEN <<>>
     ELSE LET inProject == SelectSeq(kept, LAMBDA e : insideProject(e.directory))
          IN [i \in DOMAIN inProject |-> resolveFrom(projectDir, inProject[i].directory)]

\* part_014 111-127: item?.directory when it is a string, then coerceToProjectPath
variantRoots_p14(list) ==
  LET items == IF list.set THEN list.val ELSE <<>>
      named == SelectSeq(items, LAMBDA e : e.form = "object")
      inProject == SelectSeq(named, LAMBDA e : insideProject(e.directory))
  IN [i \in DOMAIN inProject |-> resolveFrom(projectDir, inProject[i].directory)]

structureRoots(im, list) ==
  IF im = "part_013" THEN structureRoots_p13(list) ELSE variantRoots_p14(list)

overrideInit ==
  /\ oImpl \in OverrideImpls
  /\ oList \in RootLists
  /\ oEnv = <<>>
  /\ oPc = "start"

\* resolveEnvironment of part_013 returns
ResolveStructureRoots ==
  /\ oPc = "start" /\ oImpl = "part_013"
  /\ LET roots == structureRoots(oImpl, oList)
     IN oEnv' = [structureOverrides |-> Len(roots) > 0, structureRoots |-> roots]
  /\ oPc' = "returned"
  /\ UNCHANGED <<oImpl, oList>>

\* resolveEnvironment of part_014 returns (legacyVariant, variantRoots)
ResolveVariantRoots ==
  /\ oPc = "start" /\ oImpl = "part_014"
  /\ LET roots == structureRoots(oImpl, oList)
     IN oEnv' = [structureOverrides |-> Len(roots) > 0, structureRoots |-> roots]
  /\ oPc' = "returned"
  /\ UNCHANGED <<oImpl, oList>>

OverrideIdle ==
  oImpl = "idle" /\ oList = [set |-> FALSE, val |-> <<>>] /\ oEnv = <<>> /\ oPc = "idle"

(***************************************************************************)
(* Specifications                                                          *)
(***************************************************************************)
\* the entry-map builder followed by the bundler's naming step
Init ==
  EntInit /\ EnvIdle /\ A11yIdle /\ MirrorIdle /\ SpriteIdle /\ CopyIdle
  /\ KeyIdle /\ WebpackIdle /\ DrupalIdle /\ ManagerIdle /\ PruneIdle
  /\ OverrideIdle

Next ==
  \/ Begin
       /\ UNCHANGED <<envVars, a11yVars, mirrorVars, spriteVars, copyVars,
                      keyVars, webpackVars, drupalVars, managerVars, pruneVars,
                      overrideVars>>
  \/ AddGlobalJs
       /\ UNCHANGED <<envVars, a11yVars, mirrorVars, spriteVars, copyVars,
                      keyVars, webpackVars, drupalVars, managerVars, pruneVars,
                      overrideVars>>
  \/ AddComponentJs
       /\ UNCHANGED <<envVars, a11yVars, mirrorVars, spriteVars, copyVars,
                      keyVars, webpackVars, drupalVars, managerVars, pruneVars,
                      overrideVars>>
  \/ AddGlobalScss
       /\ UNCHANGED <<envVars, a11yVars, mirrorVars, spriteVars, copyVars,
                      keyVars, webpackVars, drupalVars, managerVars, pruneVars,
                      overrideVars>>
  \/ AddComponentScss
       /\ UNCHANGED <<envVars, a11yVars, mirrorVars, spriteVars, copyVars,
                      keyVars, webpackVars, drupalVars, managerVars, pruneVars,
                      overrideVars>>
  \/ AddStorybookScss
       /\ UNCHANGED <<envVars, a11yVars, mirrorVars, spriteVars, copyVars,
                      keyVars, webpackVars, drupalVars, managerVars, pruneVars,
                      overrideVars>>
  \/ AddOverrideJs
       /\ UNCHANGED <<envVars, a11yVars, mirrorVars, spriteVars, copyVars,
                      keyVars, webpackVars, drupalVars, managerVars, pruneVars,
                      overrideVars>>
  \/ AddOverrideCss
       /\ UNCHANGED <<envVars, a11yVars, mirrorVars, spriteVars, copyVars,
                      keyVars, webpackVars, drupalVars, managerVars, pruneVars,
                      overrideVars>>
  \/ AddOverrideStorybook
       /\ UNCHANGED <<envVars, a11yVars, mirrorVars, spriteVars, copyVars,
                      keyVars, webpackVars, drupalVars, managerVars, pruneVars,
                      overrideVars>>
  \/ NextLoop
       /\ UNCHANGED <<envVars, a11yVars, mirrorVars, spriteVars, copyVars,
                      keyVars, webpackVars, drupalVars, managerVars, pruneVars,
                      overrideVars>>
  \/ EmitBundle
       /\ UNCHANGED <<envVars, a11yVars, mirrorVars, spriteVars, copyVars,
                      keyVars, webpackVars, drupalVars, managerVars, pruneVars,
                      overrideVars>>

Spec == Init /\ [][Next]_vars

\* the environment resolver
EnvSpecInit ==
  EnvInit /\ EntIdle /\ A11yIdle /\ MirrorIdle /\ SpriteIdle /\ CopyIdle
  /\ KeyIdle /\ WebpackIdle /\ DrupalIdle /\ ManagerIdle /\ PruneIdle
  /\ OverrideIdle

EnvNext ==
  \/ ResolveEnvironmentJs
       /\ UNCHANGED <<entVars, a11yVars, mirrorVars, spriteVars, copyVars,
                      keyVars, webpackVars, drupalVars, managerVars, pruneVars,
                      overrideVars>>
  \/ ResolvePlatformOnly
       /\ UNCHANGED <<entVars, a11yVars, mirrorVars, spriteVars, copyVars,
                      keyVars, webpackVars, drupalVars, managerVars, pruneVars,
                      overrideVars>>
  \/ ResolveWithOverrides
       /\ UNCHANGED <<entVars, a11yVars, mirrorVars, spriteVars, copyVars,
                      keyVars, webpackVars, drupalVars, managerVars, pruneVars,
                      overrideVars>>
  \/ ResolveWithEnvSdc
       /\ UNCHANGED <<entVars, a11yVars, mirrorVars, spriteVars, copyVars,
                      keyVars, webpackVars, drupalVars, managerVars, pruneVars,
                      overrideVars>>
  \/ ResolvePart014
       /\ UNCHANGED <<entVars, a11yVars, mirrorVars, spriteVars, copyVars,
                      keyVars, webpackVars, drupalVars, managerVars, pruneVars,
                      overrideVars>>
  \/ ResolvePart015
       /\ UNCHANGED <<entVars, a11yVars, mirrorVars, spriteVars, copyVars,
                      keyVars, webpackVars, drupalVars, managerVars, pruneVars,
                      overrideVars>>

SpecEnv == EnvSpecInit /\ [][EnvNext]_vars

\* the accessibility lint
A11ySpecInit ==
  a11yInit /\ EntIdle /\ EnvIdle /\ MirrorIdle /\ SpriteIdle /\ CopyIdle
  /\ KeyIdle /\ WebpackIdle /\ DrupalIdle /\ ManagerIdle /\ PruneIdle
  /\ OverrideIdle

A11yNext ==
  \/ LintComponents
       /\ UNCHANGED <<entVars, envVars, mirrorVars, spriteVars, copyVars,
                      keyVars, webpackVars, drupalVars, managerVars, pruneVars,
                      overrideVars>>
  \/ Pa11ySettles
       /\ UNCHANGED <<entVars, envVars, mirrorVars, spriteVars, copyVars,
                      keyVars, webpackVars, drupalVars, managerVars, pruneVars,
                      overrideVars>>
  \/ PromiseAllRejects
       /\ UNCHANGED <<entVars, envVars, mirrorVars, spriteVars, copyVars,
                      keyVars, webpackVars, drupalVars, managerVars, pruneVars,
                      overrideVars>>
  \/ PromiseAllResolves
       /\ UNCHANGED <<entVars, envVars, mirrorVars, spriteVars, copyVars,
                      keyVars, webpackVars, drupalVars, managerVars, pruneVars,
                      overrideVars>>
  \/ LogReport
       /\ UNCHANGED <<entVars, envVars, mirrorVars, spriteVars, copyVars,
                      keyVars, webpackVars, drupalVars, managerVars, pruneVars,
                      overrideVars>>
  \/ ExitIfIssues
       /\ UNCHANGED <<entVars, envVars, mirrorVars, spriteVars, copyVars,
                      keyVars, webpackVars, drupalVars, managerVars, pruneVars,
                      overrideVars>>

SpecA11y == A11ySpecInit /\ [][A11yNext]_vars

\* the mirror plugin's closeBundle
MirrorSpecInit ==
  mirrorInit /\ EntIdle /\ EnvIdle /\ A11yIdle /\ SpriteIdle /\ CopyIdle
  /\ KeyIdle /\ WebpackIdle /\ DrupalIdle /\ ManagerIdle /\ PruneIdle
  /\ OverrideIdle

MirrorNext ==
  \/ MirrorStart
       /\ UNCHANGED <<entVars, envVars, a11yVars, spriteVars, copyVars,
                      keyVars, webpackVars, drupalVars, managerVars, pruneVars,
                      overrideVars>>
  \/ MirrorFile
       /\ UNCHANGED <<entVars, envVars, a11yVars, spriteVars, copyVars,
                      keyVars, webpackVars, drupalVars, managerVars, pruneVars,
                      overrideVars>>
  \/ MirrorEnd
       /\ UNCHANGED <<entVars, envVars, a11yVars, spriteVars, copyVars,
                      keyVars, webpackVars, drupalVars, managerVars, pruneVars,
                      overrideVars>>

SpecMirror == MirrorSpecInit /\ [][MirrorNext]_vars

\* the spritemap plugin's generateBundle
SpriteSpecInit ==
  spriteInit /\ EntIdle /\ EnvIdle /\ A11yIdle /\ MirrorIdle /\ CopyIdle
  /\ KeyIdle /\ WebpackIdle /\ DrupalIdle /\ ManagerIdle /\ PruneIdle
  /\ OverrideIdle

SpriteNext ==
  \/ SpriteStart
       /\ UNCHANGED <<entVars, envVars, a11yVars, mirrorVars, copyVars,
                      keyVars, webpackVars, drupalVars, managerVars, pruneVars,
                      overrideVars>>
  \/ SpriteFile
       /\ UNCHANGED <<entVars, envVars, a11yVars, mirrorVars, copyVars,
                      keyVars, webpackVars, drupalVars, managerVars, pruneVars,
                      overrideVars>>
  \/ SpriteEmit
       /\ UNCHANGED <<entVars, envVars, a11yVars, mirrorVars, copyVars,
                      keyVars, webpackVars, drupalVars, managerVars, pruneVars,
                      overrideVars>>

SpecSprite == SpriteSpecInit /\ [][SpriteNext]_vars

\* the closeBundle hooks of the two copy plugins
CopySpecInit ==
  copyInit /\ EntIdle /\ EnvIdle /\ A11yIdle /\ MirrorIdle /\ SpriteIdle
  /\ KeyIdle /\ WebpackIdle /\ DrupalIdle /\ ManagerIdle /\ PruneIdle
  /\ OverrideIdle

CopyNext ==
  \/ CopyTwigStart
       /\ UNCHANGED <<entVars, envVars, a11yVars, mirrorVars, spriteVars,
                      keyVars, webpackVars, drupalVars, managerVars, pruneVars,
                      overrideVars>>
  \/ CopyAssetsStart
       /\ UNCHANGED <<entVars, envVars, a11yVars, mirrorVars, spriteVars,
                      keyVars, webpackVars, drupalVars, managerVars, pruneVars,
                      overrideVars>>
  \/ CopyFile
       /\ UNCHANGED <<entVars, envVars, a11yVars, mirrorVars, spriteVars,
                      keyVars, webpackVars, drupalVars, managerVars, pruneVars,
                      overrideVars>>
  \/ CopyLoopsEnd
       /\ UNCHANGED <<entVars, envVars, a11yVars, mirrorVars, spriteVars,
                      keyVars, webpackVars, drupalVars, managerVars, pruneVars,
                      overrideVars>>

SpecCopy == CopySpecInit /\ [][CopyNext]_vars

\* the keys buildInputs gives to component files, for projects at any path
KeySpecInit ==
  keyInit /\ EntIdle /\ EnvIdle /\ A11yIdle /\ MirrorIdle /\ SpriteIdle
  /\ CopyIdle /\ WebpackIdle /\ DrupalIdle /\ ManagerIdle /\ PruneIdle
  /\ OverrideIdle

KeyNext ==
  \/ KeyComponentFile
       /\ UNCHANGED <<entVars, envVars, a11yVars, mirrorVars, spriteVars,
                      copyVars, webpackVars, drupalVars, managerVars,
                      pruneVars, overrideVars>>
  \/ KeyOverrideFile
       /\ UNCHANGED <<entVars, envVars, a11yVars, mirrorVars, spriteVars,
                      copyVars, webpackVars, drupalVars, managerVars,
                      pruneVars, overrideVars>>
  \/ KeyLoopsEnd
       /\ UNCHANGED <<entVars, envVars, a11yVars, mirrorVars, spriteVars,
                      copyVars, webpackVars, drupalVars, managerVars,
                      pruneVars, overrideVars>>

SpecKeys == KeySpecInit /\ [][KeyNext]_vars

\* webpack.common.js: addEntry calls on one Map
WebpackSpecInit ==
  webpackInit /\ EntIdle /\ EnvIdle /\ A11yIdle /\ MirrorIdle /\ SpriteIdle
  /\ CopyIdle /\ KeyIdle /\ DrupalIdle /\ ManagerIdle /\ PruneIdle
  /\ OverrideIdle

WebpackNext ==
  \/ AddEntry
       /\ UNCHANGED <<entVars, envVars, a11yVars, mirrorVars, spriteVars,
                      copyVars, keyVars, drupalVars, managerVars, pruneVars,
                      overrideVars>>
  \/ AddEntryThrows
       /\ UNCHANGED <<entVars, envVars, a11yVars, mirrorVars, spriteVars,
                      copyVars, keyVars, drupalVars, managerVars, pruneVars,
                      overrideVars>>

SpecWebpack == WebpackSpecInit /\ [][WebpackNext]_vars

\* _drupal.js: Drupal.attachBehaviors
DrupalSpecInit ==
  drupalInit /\ EntIdle /\ EnvIdle /\ A11yIdle /\ MirrorIdle /\ SpriteIdle
  /\ CopyIdle /\ KeyIdle /\ WebpackIdle /\ ManagerIdle /\ PruneIdle
  /\ OverrideIdle

DrupalNext ==
  \/ AttachBehaviors
       /\ UNCHANGED <<entVars, envVars, a11yVars, mirrorVars, spriteVars,
                      copyVars, keyVars, webpackVars, managerVars, pruneVars,
                      overrideVars>>
  \/ AttachBehavior
       /\ UNCHANGED <<entVars, envVars, a11yVars, mirrorVars, spriteVars,
                      copyVars, keyVars, webpackVars, managerVars, pruneVars,
                      overrideVars>>
  \/ AttachReturns
       /\ UNCHANGED <<entVars, envVars, a11yVars, mirrorVars, spriteVars,
                      copyVars, keyVars, webpackVars, managerVars, pruneVars,
                      overrideVars>>
  \/ TimerFires
       /\ UNCHANGED <<entVars, envVars, a11yVars, mirrorVars, spriteVars,
                      copyVars, keyVars, webpackVars, managerVars, pruneVars,
                      overrideVars>>

SpecDrupal == DrupalSpecInit /\ [][DrupalNext]_vars

\* plugins.js: one call of the prune helper
PruneSpecInit ==
  pruneInit /\ EntIdle /\ EnvIdle /\ A11yIdle /\ MirrorIdle /\ SpriteIdle
  /\ CopyIdle /\ KeyIdle /\ WebpackIdle /\ DrupalIdle /\ ManagerIdle
  /\ OverrideIdle

PruneNext ==
  \/ PruneCall
       /\ UNCHANGED <<entVars, envVars, a11yVars, mirrorVars, spriteVars,
                      copyVars, keyVars, webpackVars, drupalVars, managerVars,
                      overrideVars>>
  \/ PruneFails
       /\ UNCHANGED <<entVars, envVars, a11yVars, mirrorVars, spriteVars,
                      copyVars, keyVars, webpackVars, drupalVars, managerVars,
                      overrideVars>>

SpecPrune == PruneSpecInit /\ [][PruneNext]_vars

\* resolveEnvironment: the structure-override fields
OverrideSpecInit ==
  overrideInit /\ EntIdle /\ EnvIdle /\ A11yIdle /\ MirrorIdle /\ SpriteIdle
  /\ CopyIdle /\ KeyIdle /\ WebpackIdle /\ DrupalIdle /\ ManagerIdle
  /\ PruneIdle

OverrideNext ==
  \/ ResolveStructureRoots
       /\ UNCHANGED <<entVars, envVars, a11yVars, mirrorVars, spriteVars,
                      copyVars, keyVars, webpackVars, drupalVars, managerVars,
                      pruneVars>>
  \/ ResolveVariantRoots
       /\ UNCHANGED <<entVars, envVars, a11yVars, mirrorVars, spriteVars,
                      copyVars, keyVars, webpackVars, drupalVars, managerVars,
                      pruneVars>>

SpecOverrides == OverrideSpecInit /\ [][OverrideNext]_vars

\* manager.js: the Storybook manager module loads
ManagerSpecInit ==
  managerInit /\ EntIdle /\ EnvIdle /\ A11yIdle /\ MirrorIdle /\ SpriteIdle
  /\ CopyIdle /\ KeyIdle /\ WebpackIdle /\ DrupalIdle /\ PruneIdle
  /\ OverrideIdle

ManagerNext ==
  \/ ManagerStart
       /\ UNCHANGED <<entVars, envVars, a11yVars, mirrorVars, spriteVars,
                      copyVars, keyVars, webpackVars, drupalVars, pruneVars,
                      overrideVars>>
  \/ ImportSettles
       /\ UNCHANGED <<entVars, envVars, a11yVars, mirrorVars, spriteVars,
                      copyVars, keyVars, webpackVars, drupalVars, pruneVars,
                      overrideVars>>
  \/ ApplyTheme
       /\ UNCHANGED <<entVars, envVars, a11yVars, mirrorVars, spriteVars,
                      copyVars, keyVars, webpackVars, drupalVars, pruneVars,
                      overrideVars>>

SpecManager == ManagerSpecInit /\ [][ManagerNext]_vars
(***************************************************************************)
(* Vocabulary of the properties below                                      *)
(***************************************************************************)
Built == pc \in {"done", "emitted"}

\* structure overrides are configured with at least one root
OverridesActive == ctx.structureOverrides /\ ctx.structureRoots # <<>>
ModernSDC == ~OverridesActive /\ ctx.SDC
ModernBucketed == ~OverridesActive /\ ~ctx.SDC

ModernLoops == {"globalJs", "componentJs", "globalScss", "componentScss", "storybook"}
OverrideLoops == {"overrideJs", "overrideCss", "overrideStorybook"}
RunLoops == IF OverridesActive THEN OverrideLoops ELSE ModernLoops

\* the key under which add() files the key computed for file i in a loop
enteredKey(loop, i) ==
  LET key == keyIn(loop, impl, i, ctx)
  IN IF impl = "part_009"
     THEN stripLeadingSlashes(sanitizePath(toPosix(key)))
     ELSE sanitizePath(stripLeadingSlashes(toPosix(key)))

\* the files that produce key k in some loop of the run
producers(k) ==
  {i \in fs : \E loop \in RunLoops : i \in loopFiles(loop, ctx) /\ enteredKey(loop, i) = k}

holders == {inputs[k] : k \in DOMAIN inputs}

\* the first path segment of a key
namespace(k) ==
  LET i == indexOf(k, <<"/">>) IN IF i = -1 THEN k ELSE slice(k, 0, i)

\* a script and a stylesheet of one directory with one stem
sameStem(i, j) ==
  isScript(i) /\ isStylesheet(j) /\ stripJs(Rel[i]) = stripScss(Rel[j])

PairLoops == {<<"globalJs", "globalScss">>, <<"componentJs", "componentScss">>}

\* the same-stem pairs both of whose files the build picks up
matchedPairs ==
  {p \in (fs \X fs) \X PairLoops :
     /\ sameStem(p[1][1], p[1][2])
     /\ p[1][1] \in loopFiles(p[2][1], ctx)
     /\ p[1][2] \in loopFiles(p[2][2], ctx)}

C2_FirstWriterWins ==
  [][\A k \in DOMAIN inputs : k \in DOMAIN inputs' /\ inputs'[k] = inputs[k]]_vars

(***************************************************************************)
(* C3                                                                      *)
(***************************************************************************)
namesOf(k) == {o.name : o \in {x \in outputs : x.key = k}}

C4_Alphabet ==
  Range(<<"a", "b", "c", "d", "e", "f", "g", "h", "i", "j", "k", "l", "m", "n", "o", "p", "q", "r", "s", "t", "u", "v", "w", "x", "y", "z", "A", "B", "C", "D", "E", "F", "G", "H", "I", "J", "K", "L", "M", "N", "O", "P", "Q", "R", "S", "T", "U", "V", "W", "X", "Y", "Z", "0", "1", "2", "3", "4", "5", "6", "7", "8", "9", "/", "_", "-">>)

\* C4: every key of the entry map is made of characters of [A-Za-z0-9/_-] only.
C4_KeysAreSanitized ==
  \A k \in DOMAIN inputs : Range(k) \subseteq C4_Alphabet

\* a file whose name holds a character outside the class has been entered
C4_Witness ==
  \E k \in DOMAIN inputs : ~(Range(Rel[inputs[k]]) \subseteq C4_Alphabet \cup {"."})

(***************************************************************************)
(* C5                                                                      *)
(***************************************************************************)
\* the path of file i below the root of its namespace
belowRoot(loop, i) ==
  IF loop \in {"globalJs", "globalScss"} \/ ~ctx.srcExists
  THEN sliceFrom(absPath(i), Len(ctx.srcDir) + 1)
  ELSE sliceFrom(absPath(i), Len(ctx.srcDir) + Len(<<"/", "c", "o", "m", "p", "o", "n", "e", "n", "t", "s", "/">>))

\* <namespace>/<dir>/<bucket>/<name>, sanitized
bucketedKey(loop, i) ==
  LET below == belowRoot(loop, i)
      dir == dirname(below)
      file == basename(below)
      name == SubSeq(file, 1, Len(file) - (IF isScript(i) THEN 3 ELSE 5))
      ns == IF loop \in {"globalJs", "globalScss"} THEN <<"g", "l", "o", "b", "a", "l", "/">> ELSE <<"c", "o", "m", "p", "o", "n", "e", "n", "t", "s", "/">>
      bucket == IF isScript(i) THEN <<"j", "s", "/">> ELSE <<"c", "s", "s", "/">>
  IN SelectSeq(ns \o (IF dir = <<>> THEN <<>> ELSE dir \o <<"/">>) \o bucket \o name,
               LAMBDA c : c \in C4_Alphabet)

BucketLoops == {"globalJs", "componentJs", "globalScss", "componentScss"}

\* C5: with SDC off, the key of every matched global or component file has the
\* bucket js or css as the directory right before the stem, extension removed,
\* and the map holds no other global or component key.
C5_BucketBeforeStem ==
  ModernBucketed =>
    /\ Built =>
         \A loop \in BucketLoops : \A i \in loopFiles(loop, ctx) :
           enteredKey(loop, i) = bucketedKey(loop, i)
    /\ \A k \in DOMAIN inputs :
         namespace(k) \in {<<"g", "l", "o", "b", "a", "l">>, <<"c", "o", "m", "p", "o", "n", "e", "n", "t", "s">>} =>
           \E loop \in BucketLoops :
             inputs[k] \in loopFiles(loop, ctx) /\ k = bucketedKey(loop, inputs[k])

\* a built bucketed map with a global and a component entry
C5_Witness ==
  /\ Built /\ ModernBucketed
  /\ <<"c", "o", "m", "p", "o", "n", "e", "n", "t", "s", "/", "x", "/", "j", "s", "/", "a">> \in DOMAIN inputs
  /\ <<"g", "l", "o", "b", "a", "l", "/", "l", "a", "y", "o", "u", "t", "/", "c", "s", "s", "/", "h">> \in DOMAIN inputs

(***************************************************************************)
(* C6                                                                      *)
(***************************************************************************)
\* the keys the matched files produce, whatever the order of discovery
producedKeys ==
  {k \in {enteredKey(q[1], q[2]) :
            q \in {r \in RunLoops \X fs : r[2] \in loopFiles(r[1], ctx)}} :
     /\ k # <<>>
     /\ impl = "part_009" => ~ \E bad \in forbidden : includes(k, bad)}

\* C6: the key set of the built map is the same for every order in which the
\* files are discovered: it is the set of keys the matched files produce.
C6_KeySetOrderIndependent ==
  Built => DOMAIN inputs = producedKeys

\* two files of one key were discovered, the second-listed one first
C6_Witness ==
  /\ Built /\ {1, 3} \subseteq fs
  /\ \E k \in DOMAIN inputs : inputs[k] = 3 /\ 1 \in producers(k)

(***************************************************************************)
(* C7                                                                      *)
(***************************************************************************)
\* C7: no source file is entered under keys of two different namespaces.
C7_OneNamespacePerFile ==
  ~OverridesActive =>
    \A k1 \in DOMAIN inputs : \A k2 \in DOMAIN inputs :
      inputs[k1] = inputs[k2] => namespace(k1) = namespace(k2)

BadDescriptor == descriptor.state \in {"unreadable", "malformed"}

\* C9: resolveEnvironment never raises, and with an unreadable or malformed
\* descriptor it returns the record it returns when the descriptor is missing.
C9_NeverRaises ==
  /\ envPc # "raised"
  /\ (envPc = "returned" /\ BadDescriptor) =>
       env = resolveEnvironment(envImpl, MissingDescriptor, penv, srcOnDisk).value

(***************************************************************************)
(* C10                                                                     *)
(***************************************************************************)
PlatformImpls == {"part_013_sdc", "part_014", "part_015"}

\* the descriptor's platform field: project.platform, else the revision's fallback
filePlatform ==
  IF descriptor.state # "valid" THEN Absent
  ELSE orElse(descriptor.json.projectPlatform,
              IF envImpl = "part_014" THEN descriptor.json.variantPlatform
              ELSE descriptor.json.topPlatform)

\* C10, with the variable and the field read up to case and surrounding white
\* space: the platform is the environment variable when that is non-empty,
\* whatever the descriptor says; else the descriptor's platform field when that
\* is non-empty; else "generic".
C10_PlatformOrder ==
  (envPc = "returned" /\ envImpl \in PlatformImpls) =>
    LET fromEnv == lowerTrim(orEmpty(penv.EMULSIFY_PLATFORM))
        fromFile == lowerTrim(orEmpty(filePlatform))
    IN env.platform =
         IF fromEnv # <<>> THEN fromEnv
         ELSE IF fromFile # <<>> THEN fromFile
         ELSE <<"g", "e", "n", "e", "r", "i", "c">>

(***************************************************************************)
(* C11                                                                     *)
(***************************************************************************)
\* the descriptor's project.singleDirectoryComponents when it is a boolean
fileSdc ==
  descriptor.state = "valid" /\ descriptor.json.sdc = "true"

\* C11: the SDC flag is decided by EMULSIFY_SDC when that is 1/true (on) or
\* 0/false (off), whatever the descriptor says; with the variable unset it is
\* the descriptor's boolean, and false when the descriptor gives none.
C11_SdcOrder ==
  (envPc = "returned" /\ envImpl \in PlatformImpls) =>
    LET v == lowerTrim(orEmpty(penv.EMULSIFY_SDC))
    IN /\ v \in {<<"1">>, <<"t", "r", "u", "e">>} => env.SDC = TRUE
       /\ v \in {<<"0">>, <<"f", "a", "l", "s", "e">>} => env.SDC = FALSE
       /\ (~penv.EMULSIFY_SDC.set
             /\ (descriptor.state = "valid" => descriptor.json.sdc # "string"))
            => env.SDC = fileSdc

(***************************************************************************)
(* C12                                                                     *)
(***************************************************************************)
LintOver == a11yPc \in {"exited", "resolved", "rejected"}

\* an issue the project's lists do not ignore
nonIgnored(issue) ==
  /\ ~(ignore.codes.isArray /\ issue.code \in ignore.codes.items)
  /\ ~(/\ ignore.descriptions.isArray
       /\ issue.description \in ignore.descriptions.items \ {"undefined", ""})

\* the components whose pa11y report holds a non-ignored issue
pagesWithIssues ==
  {i \in DOMAIN pages :
     /\ ~pages[i].rejected
     /\ pages[i].hasIssues
     /\ \E n \in DOMAIN pages[i].issues : nonIgnored(pages[i].issues[n])}

\* C12 as stated: process.exit(1) is called if and only if the report of some
\* checked component holds a non-ignored issue.
C12_ExitIffIssue ==
  /\ ~LintOver => exitCode = "none"
  /\ LintOver => (exitCode = "1" <=> pagesWithIssues # {})

\* C12 amended: when every pa11y call resolves, process.exit(1) is called if and
\* only if some report holds a non-ignored issue, and the non-ignored issues
\* are the ones logged; when a pa11y call rejects, no report is examined and
\* process.exit is not called.
C12_ExitIffIssueInResolvedRun ==
  /\ ~LintOver => exitCode = "none"
  /\ a11yPc = "rejected" => exitCode = "none" /\ logged = <<>>
  /\ a11yPc \in {"exited", "resolved"} =>
       /\ exitCode = "1" <=> pagesWithIssues # {}
       /\ a11yPc = "exited" <=> exitCode = "1"
       /\ \A i \in DOMAIN pages : flags[i] <=> i \in pagesWithIssues
       /\ \A n \in DOMAIN logged :
            logged[n].kind = "issue" => nonIgnored(logged[n].issue)

\* a run over two components: one with ignored issues only, one with a real issue
C12_Witness ==
  /\ a11yPc = "exited" /\ exitCode = "1" /\ Len(pages) = 2
  /\ pagesWithIssues = {2}
  /\ pages[1].hasIssues /\ pages[1].issues # <<>>

(***************************************************************************)
(* C13                                                                     *)
(***************************************************************************)
distComponentsAbs == resolve(distComponents)

\* dist/components and what lies below it
inComponentsSubtree(p) ==
  p = distComponentsAbs \/ startsWith(p, distComponentsAbs \o <<"/">>)

MirrorOver == mPc \in {"done", "aborted"}

\* C13: whatever calls fail, every directory the mirror step removes is
\* dist/components or lies below it; the output root, the project root and
\* the directories made under <project>/components stay.
C13_PruneStaysInside ==
  /\ \A d \in removed : inComponentsSubtree(d)
  /\ FixedDirs \subseteq dirs

\* a run with a failed call that removed a nested directory and dist/components
C13_Witness ==
  /\ mPc = "done" /\ fault
  /\ {<<"/", "p", "/", "d", "i", "s", "t", "/", "c", "o", "m", "p", "o", "n", "e", "n", "t", "s", "/", "a", "/", "b">>, distComponentsAbs} \subseteq removed
  /\ <<"/", "p", "/", "d", "i", "s", "t", "/", "m", "a", "i", "n", ".", "j", "s">> \notin files

(***************************************************************************)
(* C14                                                                     *)
(***************************************************************************)
\* C14: after a mirror run in which no call failed, no directory in the
\* dist/components subtree is empty.
C14_NoEmptyDirLeft ==
  (mPc = "done" /\ mirrorEnabled(mImpl, menv) /\ ~fault /\ locked = {}) =>
    \A d \in dirs : inComponentsSubtree(d) => children(d, dirs, files) # {}

(***************************************************************************)
(* C15                                                                     *)
(***************************************************************************)
\* C15: no failure of a single file-system call aborts the mirror step: the
\* loop visits every walked file and closeBundle returns.
C15_BestEffort ==
  /\ mPc # "aborted"
  /\ mPc = "done" => queue = <<>>

(***************************************************************************)
(* C16                                                                     *)
(***************************************************************************)
\* C16: when the platform is not drupal or src/ does not exist, no step of the
\* mirror plugin creates, copies, deletes or prunes anything.
C16_InactiveMirrorChangesNothing ==
  [][(menv.platform # "drupal" \/ ~menv.srcExists) =>
       (dirs' = dirs /\ files' = files /\ removed' = removed /\ queue' = <<>>)]_vars

\* closeBundle has returned in a Drupal project without src/ whose output holds components
C16_Witness ==
  /\ mPc = "done"
  /\ menv.platform = "drupal" /\ ~menv.srcExists
  /\ <<"/", "p", "/", "d", "i", "s", "t", "/", "c", "o", "m", "p", "o", "n", "e", "n", "t", "s", "/", "a", "/", "g", ".", "j", "s">> \in files
  /\ removed = {}

(***************************************************************************)
(* C20                                                                     *)
(***************************************************************************)
\* C20: without src/ the global script and stylesheet patterns are empty, the
\* global loops have nothing to walk, and no key of the map starts with global/.
C20_NoGlobalWithoutSrc ==
  ~ctx.srcExists =>
    /\ makePatterns(ctx).BaseJsPattern = NoPattern
    /\ makePatterns(ctx).BaseScssPattern = NoPattern
    /\ pc \in {"globalJs", "globalScss"} => todo = {}
    /\ \A k \in DOMAIN inputs : namespace(k) # <<"g", "l", "o", "b", "a", "l">>

\* a map built without src/ from a project that holds a non-component script
C20_Witness ==
  /\ Built /\ ~ctx.srcExists /\ ~OverridesActive
  /\ {1, 5} \subseteq fs
  /\ inputs # <<>>


\* C17: the identifiers of the symbols written to the spritemap are pairwise
\* distinct, also when several icons sanitize to the same base identifier
\* and when an icon's own name already looks like a suffixed identifier
C17_SymbolIdsDistinct ==
  \A i, j \in DOMAIN symbols : i # j => symbols[i].id # symbols[j].id

\* two icons named button, one named button-2, and three distinct identifiers
C17_Witness ==
  /\ sPc = "emitted"
  /\ \E i, j, k \in DOMAIN symbols :
       /\ diskFile(symbols[i].file) # diskFile(symbols[j].file)
       /\ stem(symbols[i].file) = <<"b", "u", "t", "t", "o", "n">> /\ stem(symbols[j].file) = <<"b", "u", "t", "t", "o", "n">>
       /\ stem(symbols[k].file) = <<"b", "u", "t", "t", "o", "n", "-", "2">>
       /\ symbols[j].id = <<"i", "c", "o", "n", "-", "b", "u", "t", "t", "o", "n", "-", "2">>
       /\ symbols[k].id = <<"i", "c", "o", "n", "-", "b", "u", "t", "t", "o", "n", "-", "2", "-", "2">>

\* C18: an emitted spritemap holds exactly one symbol for each readable icon
\* file on disk, also for a file that several include patterns match
C18_OneSymbolPerFile ==
  sPc = "emitted" =>
    \A f \in DOMAIN iconDisk :
      iconDisk[f] # "unreadable" =>
        Cardinality({i \in DOMAIN symbols : diskFile(symbols[i].file) = f}) = 1

\* C19: the copy step never copies a partial: no file under the source tree
\* whose base name starts with an underscore has a copy in the build output
C19_NoUnderscoreFileCopied ==
  \A c \in copies : Head(basename(c.src)) # "_"

(***************************************************************************)
(* C21, C22                                                                *)
(***************************************************************************)
\* the issues of the reports that resolved
reportedIssues == UNION {Range(pages[i].issues) : i \in DOMAIN pages}

\* the issue's code, or its description, is an item of the project's list
listedCode(issue) == ignore.codes.isArray /\ issue.code \in ignore.codes.items
listedDescription(issue) ==
  ignore.descriptions.isArray /\ issue.description \in ignore.descriptions.items

\* C21 as stated: issueIsValid returns false exactly when the issue's code is
\* listed in the ignore codes or its description is listed in the ignore
\* descriptions.
C21_InvalidIffListed ==
  \A issue \in reportedIssues :
    issueIsValid(issue, ignore) <=> ~(listedCode(issue) \/ listedDescription(issue))

\* C21 amended: issueIsValid returns false exactly when the issue's code is
\* listed in the ignore codes, or the issue has a non-empty description that is
\* listed in the ignore descriptions; an issue without a description, or with
\* an empty one, is judged by its code alone.
C21_InvalidIffListedNonEmpty ==
  \A issue \in reportedIssues :
    issueIsValid(issue, ignore) <=>
      ~(\/ listedCode(issue)
        \/ issue.description \notin {"undefined", ""} /\ listedDescription(issue))

\* an issue with an empty description was logged although "" is listed, next
\* to a report whose issue was ignored for its description
C21_Witness ==
  /\ a11yPc \in {"exited", "resolved"}
  /\ \E n \in DOMAIN logged :
       /\ logged[n].kind = "issue"
       /\ logged[n].issue.description = ""
       /\ listedDescription(logged[n].issue)
  /\ \E issue \in reportedIssues :
       ~listedCode(issue) /\ ~issueIsValid(issue, ignore)

\* what logReport is to log for the first k reports
RECURSIVE expectedLog(_)
expectedLog(k) ==
  IF k = 0 THEN <<>>
  ELSE LET kept == SelectSeq(pages[k].issues, nonIgnored)
       IN expectedLog(k - 1)
          \o (IF kept = <<>> THEN <<[kind |-> "none", page |-> k]>>
              ELSE <<[kind |-> "found", page |-> k]>>
                   \o [n \in DOMAIN kept |->
                         [kind |-> "issue", page |-> k, issue |-> kept[n]]])

\* C22: logReport returns true exactly when the report holds a non-ignored
\* issue; it then logs the "Issues found" line and after it each non-ignored
\* issue in report order, and otherwise logs only the "No issues found" line
\* and returns false.
C22_LogReport ==
  /\ \A i \in DOMAIN flags :
       flags[i] <=> \E n \in DOMAIN pages[i].issues : nonIgnored(pages[i].issues[n])
  /\ logged = expectedLog(Len(flags))

\* a report with an ignored issue before a non-ignored one has been logged
C22_Witness ==
  /\ \E i \in DOMAIN flags :
       /\ flags[i]
       /\ Len(pages[i].issues) = 2
       /\ ~nonIgnored(pages[i].issues[1])
  /\ \E i \in DOMAIN flags : ~flags[i] /\ pages[i].issues # <<>>

(***************************************************************************)
(* C23                                                                     *)
(***************************************************************************)
\* where the mirror step copies a file of the build output to
mirrorDest(f) == projectDir \o sliceFrom(f, Len(resolve(outDir)))

\* C23: the mirror step never loses a built file: a step removes a file under
\* dist/components only when its copy under the project root's components/
\* exists afterwards, and it removes no copy.
C23_NoFileLost ==
  [][\A f \in files :
       IF inComponentsSubtree(f)
       THEN f \in files' \/ mirrorDest(f) \in files'
       ELSE f \in files']_vars

(***************************************************************************)
(* C24, C26                                                                *)
(***************************************************************************)
\* the path of a keyed file from <srcDir>/components
fromComponentsRoot(file) == sliceFrom(file, Len(kProject \o <<"/", "s", "r", "c", "/", "c", "o", "m", "p", "o", "n", "e", "n", "t", "s", "/">>))

\* the last segment loses its extension and, in a bucketed build, gets the
\* js/ or css/ folder before it; a component stylesheet gets the suffix
ruledPath(rel, type) ==
  LET i == lastIndexOf(rel, <<"/">>)
      dir == slice(rel, 0, i + 1)
      name == stripScssOrJs(sliceFrom(rel, i + 1))
  IN IF kSdc THEN dir \o name \o (IF type = "css" THEN <<"_", "_", "s", "t", "y", "l", "e">> ELSE <<>>)
     ELSE stripTrailingSlash(dir) \o typeFolder(type) \o name

\* C24: the key of a file under <srcDir>/components is components/ followed by
\* the file's path from <srcDir>/components, with the bucket or suffix rule
\* applied and the extension removed, wherever the project lives and whatever
\* the directories inside the component tree are called.
C24_KeyRelativeToComponentsRoot ==
  kPc \in {"component", "componentDone"} =>
    \A k \in DOMAIN kInputs :
      k = <<"c", "o", "m", "p", "o", "n", "e", "n", "t", "s", "/">> \o ruledPath(fromComponentsRoot(kInputs[k]), keyType(kInputs[k]))

\* C26: in the structure-override branch a script's key is js/ plus its path
\* from the top-level components/ folder without extension, css/ likewise for
\* a stylesheet, so that different files never receive the same key.
C26_OverrideKeysDistinct ==
  /\ kPc \in {"override", "overrideDone"} =>
       \A k \in DOMAIN kInputs :
         k = sliceFrom(typeFolder(keyType(kInputs[k])), 1)
               \o stripScssOrJs(fromComponentsRoot(kInputs[k]))
  /\ kPc = "overrideDone" => Cardinality(DOMAIN kInputs) = Cardinality(kFiles)

(***************************************************************************)
(* C27                                                                     *)
(***************************************************************************)
\* the files of the calls whose key is stored as k
addedUnder(k) == {c.file : c \in {d \in wCalls : sanitizePath(d.key) = k}}

withAttach ==
  {i \in DOMAIN behaviors : behaviors[i] \in {"attachReturns", "attachThrows"}}

\* C29: one call of Drupal.attachBehaviors invokes attach once on every
\* registered behaviour that has an attach function, whatever Drupal.behaviors
\* holds; no exception leaves attachBehaviors synchronously, and an exception
\* of a behaviour is thrown again only after the call has returned.
C29_EveryBehaviorAttached ==
  /\ dPc # "threw"
  /\ dPc # "returned" => rethrown = <<>>
  /\ dPc = "returned" =>
       /\ Range(attached) = withAttach
       /\ Len(attached) = Cardinality(withAttach)
       /\ Range(timers) \cup Range(rethrown)
            = {i \in DOMAIN behaviors : behaviors[i] = "attachThrows"}

\* C30: once the manager module has loaded, the theme last passed to
\* addons.setConfig is the project's theme when the import gave a non-empty
\* object and the Emulsify theme when the import failed or gave an empty
\* value; it is never undefined.
C30_ThemeConfigured ==
  gPc = "loaded" =>
    /\ configured # <<>>
    /\ LET last == configured[Len(configured)]
       IN /\ last.kind # "undefined"
          /\ IF ~imported.rejected /\ imported.default.kind = "object"
                /\ imported.default.keys # {}
             THEN last = imported.default
             ELSE last = emulsifyTheme

(***************************************************************************)
(* C25                                                                     *)
(***************************************************************************)
\* C25: the prune helper removes empty directories from the start directory
\* upward and never removes the boundary directory, for every start and
\* boundary, the start being the boundary included.
C25_BoundaryKept ==
  [][/\ pStop \in pDirs => pStop \in pDirs'
     /\ \A d \in pDirs \ pDirs' :
          d \in withParents(pStart) /\ children(d, pDirs', pFiles) = {}]_vars

(***************************************************************************)
(* C28                                                                     *)
(***************************************************************************)
\* every entry has the {name, directory} form and names a directory inside
\* the project
projectForm ==
  \A i \in DOMAIN oList.val :
    oList.val[i].form = "object" /\ insideProject(oList.val[i].directory)

\* C28: the structure-override flag of the resolved environment is true when
\* variant.structureImplementations exists and is non-empty, for entries of
\* the {name, directory} form whose directory lies inside the project, and
\* false when the list is absent or empty.
C28_FlagIffListed ==
  (oPc = "returned" /\ projectForm) =>
    (oEnv.structureOverrides <=> (oList.set /\ oList.val # <<>>))
====
